---- MODULE Spec2Model ----
(***************************************************************************)
(* Model of the tw-stock-tool core:                                        *)
(*   - backtest_engine.run_backtest: the probability-driven two-state      *)
(*     (Flat / Long) backtest, one action per loop iteration;              *)
(*   - analysis_engine.get_stock_recommendations / process_ticker: the     *)
(*     concurrent universe scan and its ranking;                           *)
(*   - the scorers of analysis_engine, one call per step;                  *)
(*   - feature_engineering.create_features, value by value;                *)
(*   - model_trainer.train_random_forest: pooling, dropna, split and fit;  *)
(*   - the model payload: fit_from_pooled, save_model, load_model_payload  *)
(*     and the two inference entry points.                                 *)
(*                                                                         *)
(* Numbers.  Probabilities and thresholds are integers in percent          *)
(* (0.60 -> 60).  Prices are positive integers.  Returns and equity values *)
(* are exact rationals <<num, den>> in lowest terms with den > 0; the      *)
(* binary rounding of Python floats is not modelled.                       *)
(***************************************************************************)
EXTENDS Integers, Sequences, FiniteSets, TLC

(***************************************************************************)
(* Bounds of the model                                                     *)
(***************************************************************************)
\* Sessions 0 .. Prefix-1 of a backtest read freely chosen inputs; from
\* session Prefix on the series repeats its last row (same P(up), flat close).
Prefix == 3

\* Tasks of a scan that the model lets run at the same time (the pool itself
\* allows MAX_WORKERS); tasks are started in submission order.
MaxRunning == 2

\* Longest bar series handed to create_features on its own: one bar more than
\* the first row on which every feature exists.
MaxBars == 22

\* Most frames in a list handed to train_random_forest.
MaxFrames == 2

(***************************************************************************)
(* Program constants                                                       *)
(***************************************************************************)
MIN_BARS == 50          \* backtest_engine.py:42 and :61
BUY_THRESHOLD == 60     \* backtest_engine.py:15  buy_threshold = 0.60
SELL_THRESHOLD == 40    \* backtest_engine.py:15  sell_threshold = 0.40
NEUTRAL_PROB == 50      \* backtest_engine.py:79  np.full(len, 0.5)
MAX_WORKERS == 20           \* analysis_engine.py:125
TOP_PICK_MIN_SCORE == 3     \* analysis_engine.py:137
TOP_PICK_CAP == 10          \* analysis_engine.py:137
WARNING_MAX_SCORE == 1      \* analysis_engine.py:140
WARNING_CAP == 5            \* analysis_engine.py:142
SHORT_TERM_MIN_SCORE == 3   \* analysis_engine.py:622
LONG_TERM_MIN_SCORE == 4    \* analysis_engine.py:644
ETF_MIN_SCORE == 2          \* analysis_engine.py:61 and :91 (the shadowed definition)

\* Input alphabets of the backtest.
ProbSet == {30, 40, 60, 70}
PriceSet == {10, 11, 12, 13}
RowCounts == {0, 4, MIN_BARS - 1, MIN_BARS}

\* The series of the specification's state-machine scenario, continued past
\* its fourth row by repeating that row.
ExampleProbs == <<70, 70, 30, 30>>
ExampleCloses == <<10, 11, 12, 13>>
ExProb(t) == IF t < Len(ExampleProbs) THEN ExampleProbs[t + 1] ELSE ExampleProbs[Len(ExampleProbs)]
ExClose(t) == IF t < Len(ExampleCloses) THEN ExampleCloses[t + 1] ELSE ExampleCloses[Len(ExampleCloses)]

(***************************************************************************)
(* Exact rational arithmetic                                               *)
(***************************************************************************)
Abs(x) == IF x < 0 THEN -x ELSE x

RECURSIVE GCD(_, _)
GCD(a, b) == IF b = 0 THEN a ELSE GCD(b, a % b)

Rat(n, d) ==
    LET g == GCD(Abs(n), Abs(d))
        s == IF d < 0 THEN -1 ELSE 1
    IN  <<(s * n) \div g, (s * d) \div g>>

RatAdd(x, y) == Rat(x[1] * y[2] + y[1] * x[2], x[2] * y[2])
RatMul(x, y) == Rat(x[1] * y[1], x[2] * y[2])
RatLess(x, y) == x[1] * y[2] < y[1] * x[2]
RatPos(x) == x[1] > 0

\* round(x * 100, 2) expressed in hundredths (an integer): x * 10000 rounded
\* to the nearest integer, ties to even.
RoundPct(x) ==
    LET n == x[1] * 10000
        d == x[2]
        q == n \div d
        r == n % d
    IN  IF 2 * r < d THEN q
        ELSE IF 2 * r > d THEN q + 1
        ELSE IF q % 2 = 0 THEN q ELSE q + 1

RECURSIVE SeqSum(_)
SeqSum(s) == IF s = <<>> THEN <<0, 1>> ELSE RatAdd(s[1], SeqSum(Tail(s)))

VARIABLES
    \* ---- run_backtest ----
    bt_pc,              \* "start" | "sim" | "done" | "raised"
    ohlcv_df,           \* the bar-series argument
    model_or_payload,   \* the model / payload argument
    prob_len,           \* len(prob_up)
    i,                  \* loop index
    current_price, next_price, p,   \* the loop's locals of the last iteration
    last_close,         \* the close most recently read from the series
    holding, entry_price, trades, portfolio_values,
    result,
    onExample,          \* history: every input read so far is the scenario's
    num_entries,        \* history: number of Flat -> Long transitions so far
    \* ---- get_stock_recommendations ----
    scan_pc,            \* "idle" | "collect" | "done" | "raised"
    mode,               \* "Short-term" | "Long-term"
    sector,             \* key of SECTOR_MAP
    outcome,            \* per submitted task: what its data sources and scorer yield
    target_list,        \* the tickers submitted, in submission order
    completed,          \* indices of the tasks whose future has been handled
    recommendations,
    top_picks, warnings,
    \* ---- analyze_short_term / analyze_long_term ----
    sc_pc,              \* position inside the scorer, "off" when not called
    sc_mode,            \* "short": analyze_short_term, "long": analyze_long_term
    df_len,             \* len(df); 0 stands for None or an empty frame
    info_empty,         \* TRUE iff `not info`
    reading,            \* the inputs the factor just evaluated has read
    mkt_cap,            \* info.get('marketCap', 0), read at 373 and again at 469
    sc_score,           \* the local `score`
    sc_details,         \* the local `details`
    sc_ret,             \* the value returned, or the exception raised
    \* ---- create_features ----
    fe_pc,              \* "call" | "again" | "done", "off" when not called
    bars,               \* the OHLCV series
    bars_alt,           \* a series equal to bars up to row `cut`
    cut,
    features,           \* create_features(bars)
    features_alt,       \* create_features(bars_alt)
    \* ---- train_random_forest ----
    tr_pc,              \* "call" | "dropna" | "split" | "fit" | "done"
    data,               \* the data argument: one frame or a list of frames
    test_size,          \* in percent
    ties,               \* how sort_index orders rows of equal index label
    combined_df,
    train_df, test_df,  \* the two parts time_series_train_test_split returns
    tr_ret,             \* the dict returned
    \* ---- model payload: fit, save, load, inference ----
    ml_pc,              \* "start" | "saved" | "loaded" | "done", "off" when not used
    ml_result,          \* what train_random_forest returned to fit_from_pooled
    ml_saved,           \* the arguments save_model was called with
    ml_file,            \* the entries stored at model_path, <<>> when none
    ml_disk,            \* the state of the file when it is loaded
    ml_loaded,          \* what load_model_payload returned
    ml_call,            \* the arguments of the inference call
    ml_matrix,          \* the matrix handed to model.predict_proba
    ml_out              \* what the inference call returned or raised

btVars == <<bt_pc, ohlcv_df, model_or_payload, prob_len, i, current_price,
            next_price, p, last_close, holding, entry_price, trades,
            portfolio_values, result, onExample, num_entries>>

scanVars == <<scan_pc, mode, sector, outcome, target_list, completed,
              recommendations, top_picks, warnings>>

scVars == <<sc_pc, sc_mode, df_len, info_empty, reading, mkt_cap, sc_score,
            sc_details, sc_ret>>

feVars == <<fe_pc, bars, bars_alt, cut, features, features_alt>>

trVars == <<tr_pc, data, test_size, ties, combined_df, train_df, test_df, tr_ret>>

mlVars == <<ml_pc, ml_result, ml_saved, ml_file, ml_disk, ml_loaded, ml_call,
            ml_matrix, ml_out>>

vars == <<btVars, scanVars, scVars, feVars, trVars, mlVars>>

(***************************************************************************)
(* run_backtest: arguments                                                 *)
(***************************************************************************)
\* A classifier is described by what predict_proba does: "ok" returns two
\* columns, "onecol" returns a single column, "raises" raises.
ClfKinds == {"ok", "onecol", "raises"}

OhlcvArgs ==
    {[isNone |-> TRUE, rows |-> 0, hasCols |-> FALSE]}
    \cup {[isNone |-> FALSE, rows |-> n, hasCols |-> c] : n \in RowCounts, c \in BOOLEAN}

ModelArgs ==
    {[isDict |-> FALSE, model |-> m, feature_cols |-> "None"] : m \in ClfKinds \cup {"None"}}
    \cup {[isDict |-> TRUE, model |-> m, feature_cols |-> f] :
            m \in ClfKinds \cup {"None"}, f \in {"None", "cols"}}

\* backtest_engine.py:34-40
EmptyResult ==
    [total_return |-> 0, win_rate |-> 0, max_drawdown |-> 0, num_trades |-> 0,
     error |-> "None"]

ErrorResult(msg) == [EmptyResult EXCEPT !.error = msg]

\* backtest_engine.py:42
InsufficientData(df) == df.isNone \/ df.rows = 0 \/ df.rows < MIN_BARS

\* backtest_engine.py:47-52: (model, feature_cols) taken from the argument
SelectModel(mp) == mp.model
SelectFeatureCols(mp) == IF mp.isDict THEN mp.feature_cols ELSE "default"

\* feature_engineering.create_features: the number of feature rows; an empty
\* frame when the series is empty or a required column is missing
CreateFeaturesRows(df) == IF df.isNone \/ df.rows = 0 \/ ~df.hasCols THEN 0 ELSE df.rows

(***************************************************************************)
(* run_backtest: the simulation's pieces                                   *)
(***************************************************************************)
BuySignalInclusive(pr) == pr >= BUY_THRESHOLD

BuySignal(pr) == pr > BUY_THRESHOLD

SellSignal(pr) == pr < SELL_THRESHOLD

SellExitSameBar(cur, nxt) == cur

SellExitPrice(cur, nxt) == nxt

Trade(entry, exit) ==
    [entry |-> entry, exit |-> exit, return |-> Rat(exit - entry, entry)]

\* (next_price - current_price) / current_price, then pv * (1 + daily_return)
Accrue(pv, cur, nxt) ==
    Append(pv, RatMul(pv[Len(pv)], RatAdd(<<1, 1>>, Rat(nxt - cur, cur))))

LeaveOpenPosition(h, tr, entry, final) == tr

CloseOpenPosition(h, tr, entry, final) ==
    IF h THEN Append(tr, Trade(entry, final)) ELSE tr

Returns(tr) == [k \in 1..Len(tr) |-> tr[k].return]

TotalReturn(tr) == IF tr # <<>> THEN SeqSum(Returns(tr)) ELSE <<0, 1>>

WinRateCountsZero(tr) ==
    IF tr # <<>>
    THEN Rat(Cardinality({k \in 1..Len(tr) : tr[k].return[1] >= 0}), Len(tr))
    ELSE <<0, 1>>

WinRate(tr) ==
    IF tr # <<>>
    THEN Rat(Cardinality({k \in 1..Len(tr) : RatPos(tr[k].return)}), Len(tr))
    ELSE <<0, 1>>

PeakAt(pv, j) ==
    pv[CHOOSE k \in 1..j : \A m \in 1..j : ~RatLess(pv[k], pv[m])]

DrawdownAt(pv, j) ==
    LET pk == PeakAt(pv, j)
    IN  Rat((pk[1] * pv[j][2] - pv[j][1] * pk[2]) * pk[2], pk[2] * pv[j][2] * pk[1])

MaxDrawdown(pv) ==
    IF Len(pv) > 1
    THEN DrawdownAt(pv, CHOOSE j \in 1..Len(pv) :
                        \A m \in 1..Len(pv) : ~RatLess(DrawdownAt(pv, j), DrawdownAt(pv, m)))
    ELSE <<0, 1>>

Metrics(tr, pv) ==
    [total_return |-> RoundPct(TotalReturn(tr)),
     win_rate |-> RoundPct(WinRate(tr)),
     max_drawdown |-> RoundPct(MaxDrawdown(pv)),
     num_trades |-> Len(tr),
     error |-> "None"]

\* The series rows a session may read (see Prefix).
ProbInputs(kind, t, prev) ==
    IF kind = "onecol" THEN {NEUTRAL_PROB}
    ELSE IF t < Prefix THEN ProbSet ELSE {prev}

CloseInputs(t, prev) == IF t < Prefix THEN PriceSet ELSE {prev}

(***************************************************************************)
(* run_backtest: actions                                                   *)
(***************************************************************************)
BtInit ==
    /\ bt_pc = "start"
    /\ ohlcv_df \in OhlcvArgs
    /\ model_or_payload \in ModelArgs
    /\ prob_len = 0
    /\ i = 0
    /\ current_price = 0 /\ next_price = 0 /\ p = 0
    /\ last_close = 0
    /\ holding = FALSE
    /\ entry_price = 0
    /\ trades = <<>>
    /\ portfolio_values = <<>>
    /\ result = EmptyResult
    /\ onExample = FALSE
    /\ num_entries = 0

BtReturn(res) ==
    /\ bt_pc' = "done"
    /\ result' = res
    /\ UNCHANGED <<prob_len, i, current_price, next_price, p, last_close, holding,
                   entry_price, trades, portfolio_values, onExample, num_entries>>

BtRaise ==
    /\ bt_pc' = "raised"
    /\ UNCHANGED <<result, prob_len, i, current_price, next_price, p, last_close,
                   holding, entry_price, trades, portfolio_values, onExample,
                   num_entries>>

\* backtest_engine.py:34-88: argument checks, features, alignment, prediction
Validate ==
    /\ bt_pc = "start"
    /\ UNCHANGED <<ohlcv_df, model_or_payload>>
    /\ UNCHANGED <<scanVars, scVars, feVars, trVars, mlVars>>
    /\ LET model == SelectModel(model_or_payload)
           feature_cols == SelectFeatureCols(model_or_payload)
           featRows == CreateFeaturesRows(ohlcv_df)
       IN  IF InsufficientData(ohlcv_df)
             THEN BtReturn(ErrorResult("Insufficient data"))
           ELSE IF model = "None"
             THEN BtReturn(ErrorResult("No model provided"))
           ELSE IF featRows = 0 \/ featRows < MIN_BARS
             THEN BtReturn(ErrorResult("Failed to compute features"))
           ELSE IF feature_cols = "None"
             THEN BtRaise                \* set(None): TypeError at line 66
           ELSE IF model = "raises"
             THEN BtReturn(ErrorResult("Prediction failed"))
           ELSE \E c0 \in PriceSet :
                  /\ bt_pc' = "sim"
                  /\ prob_len' = featRows
                  /\ i' = 0
                  /\ last_close' = c0
                  /\ holding' = FALSE
                  /\ entry_price' = 0
                  /\ trades' = <<>>
                  /\ portfolio_values' = <<(<<1, 1>>)>>
                  /\ onExample' = (model = "ok" /\ c0 = ExClose(0))
                  /\ UNCHANGED <<current_price, next_price, p, result, num_entries>>

\* backtest_engine.py:92-116: one iteration of the loop
Step ==
    /\ bt_pc = "sim"
    /\ i < prob_len - 1
    /\ \E pin \in ProbInputs(SelectModel(model_or_payload), i, p),
          nxt \in CloseInputs(i, last_close) :
         LET cur == last_close IN
         /\ current_price' = cur
         /\ next_price' = nxt
         /\ p' = pin
         /\ last_close' = nxt
         /\ onExample' = (onExample /\ pin = ExProb(i) /\ nxt = ExClose(i + 1))
         /\ IF ~holding
              THEN /\ holding' = BuySignal(pin)
                   /\ entry_price' = IF BuySignal(pin) THEN cur ELSE entry_price
                   /\ num_entries' = IF BuySignal(pin) THEN num_entries + 1 ELSE num_entries
                   /\ UNCHANGED <<trades, portfolio_values>>
              ELSE /\ portfolio_values' = Accrue(portfolio_values, cur, nxt)
                   /\ IF SellSignal(pin)
                        THEN /\ trades' = Append(trades, Trade(entry_price, SellExitPrice(cur, nxt)))
                             /\ holding' = FALSE
                        ELSE UNCHANGED <<trades, holding>>
                   /\ UNCHANGED <<entry_price, num_entries>>
    /\ i' = i + 1
    /\ UNCHANGED <<bt_pc, ohlcv_df, model_or_payload, prob_len, result>>
    /\ UNCHANGED <<scanVars, scVars, feVars, trVars, mlVars>>

\* backtest_engine.py:118-151: forced close, metrics, return
Finish ==
    /\ bt_pc = "sim"
    /\ i >= prob_len - 1
    /\ trades' = CloseOpenPosition(holding, trades, entry_price, last_close)
    /\ result' = Metrics(trades', portfolio_values)
    /\ bt_pc' = "done"
    /\ UNCHANGED <<ohlcv_df, model_or_payload, prob_len, i, current_price, next_price,
                   p, last_close, holding, entry_price, portfolio_values, onExample,
                   num_entries>>
    /\ UNCHANGED <<scanVars, scVars, feVars, trVars, mlVars>>

(***************************************************************************)
(* Universe scan: tickers, sectors, per-ticker inputs                      *)
(***************************************************************************)
\* A ticker is the digit string of its code ("00878.TW" -> <<0,0,8,7,8>>).
\* analysis_engine.py:26-36; the sectors the model scans.
SECTOR_MAP ==
    [Memory |-> << <<2,4,0,8>>, <<8,2,9,9>>, <<3,2,6,0>>, <<2,3,4,4>>,
                   <<2,3,3,7>>, <<3,4,5,0>> >>,
     ETF    |-> << <<0,0,5,0>>, <<0,0,5,6>>, <<0,0,8,7,8>>, <<0,0,9,2,9>>,
                   <<0,0,9,1,9>>, <<0,0,6,2,0,8>>, <<0,0,7,1,3>>, <<0,0,9,4,0>>,
                   <<0,0,6,9,2>>, <<0,0,8,8,1>>, <<0,0,9,0,0>>, <<0,0,8,9,5>> >>,
     Packaging |-> << <<2,3,1,1>>, <<3,7,1,1>>, <<6,2,3,9>>, <<8,1,5,0>>,
                      <<2,3,6,9>>, <<6,1,2,1>>, <<3,7,1,1>> >>]

Sectors == {"Memory", "ETF", "Packaging"}

Modes == {"Short-term", "Long-term"}

\* ticker.startswith("00")
IsEtf(ticker) == Len(ticker) >= 2 /\ ticker[1] = 0 /\ ticker[2] = 0

\* What the collaborators yield for one ticker: the price history raises
\* ("raises", standing for any exception inside the task), is empty ("empty"),
\* the fundamentals are empty ("noinfo"), or all data are there ("ok");
\* score is the score the SignalScorer computes from them.
Outcome(kind, score) == [kind |-> kind, score |-> score]

FreeOutcomes(sec) ==
    IF sec = "Memory"
    THEN {Outcome("raises", 0), Outcome("empty", 0), Outcome("noinfo", 3)}
         \cup {Outcome("ok", sc) : sc \in {-1, 2, 3, 4}}
    ELSE {Outcome("raises", 0), Outcome("ok", 2), Outcome("ok", 3)}

\* Tickers whose outcome is chosen freely; the others score 3, 4, 5, 3, ...
FreeCount(sec) == IF sec = "Memory" THEN 3 ELSE 1

ScoreCycle == <<3, 4, 5>>

\* A ticker listed twice reads the same data both times: an entry has the
\* outcome of the ticker's first entry.
OutcomeFamily(sec) ==
    LET list == SECTOR_MAP[sec]
        n == Len(list)
        First(k) == CHOOSE j \in 1..k : list[j] = list[k] /\ \A m \in 1..(j - 1) : list[m] # list[k]
    IN  {[k \in 1..n |-> IF First(k) <= FreeCount(sec) THEN g[First(k)]
                         ELSE Outcome("ok", ScoreCycle[((First(k) - 1) % 3) + 1])] :
            g \in [1..FreeCount(sec) -> FreeOutcomes(sec)]}

(***************************************************************************)
(* SignalScorer verdicts                                                   *)
(***************************************************************************)
\* analysis_engine.py:304-314
ShortTermSignalBuyAtOne(score) ==
    IF score >= 4 THEN "Strong Buy"
    ELSE IF score >= 1 THEN "Buy"
    ELSE IF score <= -1 THEN "Sell"
    ELSE "Wait"

ShortTermSignal(score) ==
    IF score >= 4 THEN "Strong Buy"
    ELSE IF score >= 2 THEN "Buy"
    ELSE IF score <= -1 THEN "Sell"
    ELSE "Wait"

\* analysis_engine.py:554-560
LongTermSignal(score) ==
    IF score >= 5 THEN "Strong Buy"
    ELSE IF score >= 3 THEN "Buy"
    ELSE "Wait"

(***************************************************************************)
(* process_ticker (the definition in force, analysis_engine.py:600-659)    *)
(***************************************************************************)
NoneRec == [ticker |-> <<>>, signal |-> "None", score |-> 0]

Rec(ticker, signal, score) == [ticker |-> ticker, signal |-> signal, score |-> score]

Returned(v) == [raised |-> FALSE, value |-> v]

ProcessTickerNoCatch(ticker, md, oc) ==
    IF oc.kind = "raises" THEN [raised |-> TRUE, value |-> NoneRec]
    ELSE IF oc.kind = "empty" THEN Returned(NoneRec)
    ELSE IF md = "Long-term" /\ oc.kind = "noinfo" THEN Returned(NoneRec)
    ELSE IF oc.score >= (IF md = "Short-term" THEN SHORT_TERM_MIN_SCORE ELSE LONG_TERM_MIN_SCORE)
    THEN Returned(Rec(ticker, IF md = "Short-term" THEN ShortTermSignal(oc.score)
                              ELSE LongTermSignal(oc.score), oc.score))
    ELSE Returned(NoneRec)

\* The record's name, reasons, price and style fields are carried through
\* unchanged and are left out.
ProcessTicker(ticker, md, oc) ==
    IF oc.kind = "raises" THEN Returned(NoneRec)          \* except Exception: return None
    ELSE IF oc.kind = "empty" THEN Returned(NoneRec)      \* if df.empty: return None
    ELSE IF md = "Short-term" THEN
        IF oc.score >= SHORT_TERM_MIN_SCORE
        THEN Returned(Rec(ticker, ShortTermSignal(oc.score), oc.score))
        ELSE Returned(NoneRec)
    ELSE IF md = "Long-term" THEN
        IF oc.kind = "noinfo" THEN Returned(NoneRec)      \* if not info: return None
        ELSE IF oc.score >= LONG_TERM_MIN_SCORE
        THEN Returned(Rec(ticker, LongTermSignal(oc.score), oc.score))
        ELSE Returned(NoneRec)
    ELSE Returned(NoneRec)

(***************************************************************************)
(* get_stock_recommendations: ranking                                      *)
(***************************************************************************)
Take(s, n) == SubSeq(s, 1, IF Len(s) < n THEN Len(s) ELSE n)

\* list.sort(key=lambda x: x['score']) is stable: the records of one score
\* keep their order; the scores are taken from `v` to `last` in steps of dir.
RECURSIVE SortFromScore(_, _, _, _)
SortFromScore(s, v, last, dir) ==
    LET same == SelectSeq(s, LAMBDA r : r.score = v)
    IN  IF v = last THEN same ELSE same \o SortFromScore(s, v + dir, last, dir)

\* dir = 1 ascending, dir = -1 (reverse=True) descending.
SortBy(s, dir) ==
    IF s = <<>> THEN <<>>
    ELSE LET keys == {s[k].score : k \in 1..Len(s)}
             lo == CHOOSE x \in keys : \A y \in keys : x <= y
             hi == CHOOSE x \in keys : \A y \in keys : x >= y
         IN  IF dir = 1 THEN SortFromScore(s, lo, hi, 1) ELSE SortFromScore(s, hi, lo, -1)

SortRecommendationsAscending(recs) == SortBy(recs, 1)

\* analysis_engine.py:134
SortRecommendations(recs) == SortBy(recs, -1)

IsTopPickStrict(r) == r.score > TOP_PICK_MIN_SCORE

IsTopPick(r) == r.score >= TOP_PICK_MIN_SCORE

IsWarningBelowFour(r) == r.score <= TOP_PICK_MIN_SCORE \/ r.signal = "Sell" \/ r.signal = "Wait"

IsWarning(r) == r.score <= WARNING_MAX_SCORE \/ r.signal = "Sell" \/ r.signal = "Wait"

\* analysis_engine.py:137
TopPicks(sorted) == Take(SelectSeq(sorted, IsTopPick), TOP_PICK_CAP)

\* analysis_engine.py:140-142
Warnings(sorted) == Take(SortBy(SelectSeq(sorted, IsWarning), 1), WARNING_CAP)

(***************************************************************************)
(* get_stock_recommendations: actions                                      *)
(***************************************************************************)
ScanInit ==
    /\ scan_pc = "idle"
    /\ mode \in Modes
    /\ sector \in Sectors
    /\ outcome \in OutcomeFamily(sector)
    /\ target_list = <<>>
    /\ completed = {}
    /\ recommendations = <<>>
    /\ top_picks = <<>>
    /\ warnings = <<>>

\* analysis_engine.py:119-126: one task per entry of the sector's list
StartScan ==
    /\ scan_pc = "idle"
    /\ scan_pc' = "collect"
    /\ recommendations' = <<>>
    /\ target_list' = SECTOR_MAP[sector]
    /\ completed' = {}
    /\ UNCHANGED <<mode, sector, outcome, top_picks, warnings>>
    /\ UNCHANGED <<btVars, scVars, feVars, trVars, mlVars>>

\* Task k is running: it is among the first Running not-yet-completed tasks.
Running == IF MAX_WORKERS < MaxRunning THEN MAX_WORKERS ELSE MaxRunning

CanComplete(k) ==
    /\ k \in 1..Len(target_list)
    /\ k \notin completed
    /\ Cardinality({j \in 1..(k - 1) : j \notin completed}) < Running

\* analysis_engine.py:128-131: a task finishes and as_completed hands its
\* future to the loop; future.result() re-raises what the task raised.
Complete(k) ==
    /\ scan_pc = "collect"
    /\ CanComplete(k)
    /\ LET r == ProcessTicker(target_list[k], mode, outcome[k]) IN
         IF r.raised
         THEN /\ scan_pc' = "raised"
              /\ UNCHANGED <<completed, recommendations>>
         ELSE /\ completed' = completed \cup {k}
              /\ recommendations' =
                    IF r.value # NoneRec THEN Append(recommendations, r.value)
                    ELSE recommendations
              /\ UNCHANGED scan_pc
    /\ UNCHANGED <<mode, sector, outcome, target_list, top_picks, warnings>>
    /\ UNCHANGED <<btVars, scVars, feVars, trVars, mlVars>>

RankWithoutWaiting ==
    /\ scan_pc = "collect"
    /\ completed # {}
    /\ LET sorted == SortRecommendations(recommendations) IN
         /\ recommendations' = sorted
         /\ top_picks' = TopPicks(sorted)
         /\ warnings' = Warnings(sorted)
    /\ scan_pc' = "done"
    /\ UNCHANGED <<mode, sector, outcome, target_list, completed>>
    /\ UNCHANGED <<btVars, scVars, feVars, trVars, mlVars>>

\* analysis_engine.py:133-144: every future handled; sort, partition, return
Rank ==
    /\ scan_pc = "collect"
    /\ completed = 1..Len(target_list)
    /\ LET sorted == SortRecommendations(recommendations) IN
         /\ recommendations' = sorted
         /\ top_picks' = TopPicks(sorted)
         /\ warnings' = Warnings(sorted)
    /\ scan_pc' = "done"
    /\ UNCHANGED <<mode, sector, outcome, target_list, completed>>
    /\ UNCHANGED <<btVars, scVars, feVars, trVars, mlVars>>

(***************************************************************************)
(* SignalScorer: values                                                    *)
(***************************************************************************)
\* A float that may be NaN, or a mapping value that may be None, is a set of
\* at most one number: {} is the missing value, {x} is the number x.  Every
\* comparison with a missing value is False, as in Python and pandas.
NaN == {}

None == {}

Num(x) == {x}

Gt(a, b) == \E x \in a, y \in b : x > y

Lt(a, b) == \E x \in a, y \in b : x < y

\* Python truthiness of an optional number: None and 0 are falsy.
Truthy(a) == \E x \in a : x # 0

Nums(S) == {Num(x) : x \in S}

ScReturn(signal, dets, sc) ==
    [raised |-> FALSE, signal |-> signal, details |-> dets, score |-> sc]

NoReturn == [raised |-> FALSE, signal |-> "pending", details |-> <<>>, score |-> 0]

NoReading == [factor |-> "none"]

\* rolling(5) in the volume factor, df['K'].iloc[-2] in the K/D factor and
\* inst_df.head(3) in the institutional factor.
VOL_WINDOW == 5

KD_ROWS == 2

INST_HEAD == 3

\* Frame lengths: empty, too short for iloc[-2], too short for the rolling
\* mean, long enough for every factor.
FrameLens == {0, KD_ROWS - 1, KD_ROWS, VOL_WINDOW}

\* get_multi_day_institutional_data(..., days=5) of app.py:234, the frame
\* the page hands to analyze_short_term.
SHORT_DAYS == 5

\* The frames get_multi_day_institutional_data builds: None when no session
\* had data, else one row per session found, reversed into ascending date
\* order (data_list[::-1]), so rows[1] is the oldest session and
\* rows[Len(rows)] the latest.  The empty frame is what a caller may pass.
\* A session's net buying is +2 or -1.
InstFrames ==
    {[isNone |-> TRUE, rows |-> <<>>], [isNone |-> FALSE, rows |-> <<>>]}
    \cup {[isNone |-> FALSE, rows |-> r] :
            r \in [1..SHORT_DAYS -> {[Foreign |-> 3, Trust |-> -1],
                                      [Foreign |-> 0, Trust |-> -1]}]}

\* rows['Foreign'].sum() + rows['Trust'].sum()
RECURSIVE NetBuy(_)
NetBuy(rows) ==
    IF rows = <<>> THEN 0 ELSE rows[1].Foreign + rows[1].Trust + NetBuy(Tail(rows))

RECURSIVE SumSeq(_)
SumSeq(s) == IF s = <<>> THEN 0 ELSE s[1] + SumSeq(Tail(s))

InstGiven(inst_df) == ~inst_df.isNone /\ inst_df.rows # <<>>

(***************************************************************************)
(* analyze_short_term (analysis_engine.py:146-314)                         *)
(***************************************************************************)
\* Each factor is [delta |-> what it adds to score, signal |-> its label].
MaTrend(ma5, ma20, ma60) ==
    IF Gt(ma5, ma20) /\ Gt(ma20, ma60) THEN [delta |-> 2, signal |-> "Bullish"]
    ELSE IF Gt(ma5, ma20) THEN [delta |-> 1, signal |-> "Bullish"]
    ELSE IF Lt(ma5, ma20) THEN [delta |-> -1, signal |-> "Bearish"]
    ELSE [delta |-> 0, signal |-> "Neutral"]

RsiFactor(rsi) ==
    IF Gt(rsi, Num(50)) /\ Lt(rsi, Num(70)) THEN [delta |-> 1, signal |-> "Bullish"]
    ELSE IF Gt(rsi, Num(80)) THEN [delta |-> -1, signal |-> "Warning"]
    ELSE IF Lt(rsi, Num(30)) THEN [delta |-> 1, signal |-> "Bullish"]
    ELSE [delta |-> 0, signal |-> "Neutral"]

MacdFactor(macd, signal_line) ==
    IF Gt(macd, signal_line) THEN [delta |-> 1, signal |-> "Bullish"]
    ELSE [delta |-> 0, signal |-> "Neutral"]

ShortChips(inst_df) ==
    IF InstGiven(inst_df)
    THEN LET recent_inst == Take(inst_df.rows, INST_HEAD)
             total_buy == NetBuy(recent_inst)
         IN  IF total_buy > 0 THEN [delta |-> 1, signal |-> "Bullish"]
             ELSE [delta |-> 0, signal |-> "Bearish"]
    ELSE [delta |-> 0, signal |-> "Neutral"]

\* vols is the tail of df['Volume'], at most VOL_WINDOW long.  The rolling
\* mean is NaN until VOL_WINDOW rows exist; vol_today > vol_avg * 2 is
\* compared after multiplying both sides by the window.
VolumeFactor(vols) ==
    LET vol_today == vols[Len(vols)]
    IN  IF Len(vols) >= VOL_WINDOW /\ VOL_WINDOW * vol_today > 2 * SumSeq(vols)
        THEN [delta |-> 1, signal |-> "Bullish"]
        ELSE [delta |-> 0, signal |-> "Neutral"]

KdFactor(k, d, prev_k, prev_d) ==
    IF Lt(k, Num(20)) /\ Gt(k, d) /\ Lt(prev_k, prev_d)
    THEN [delta |-> 2, signal |-> "Bullish"]
    ELSE IF Gt(k, Num(80))
    THEN IF Lt(k, d) /\ Gt(prev_k, prev_d)
         THEN [delta |-> -1, signal |-> "Bearish"]
         ELSE [delta |-> 0, signal |-> "Warning"]
    ELSE [delta |-> 0, signal |-> "Neutral"]

\* One factor's bookkeeping: score += delta; details.append({...}).
Scored1(f, metric) ==
    /\ sc_score' = sc_score + f.delta
    /\ sc_details' = Append(sc_details, [metric |-> metric, signal |-> f.signal])

\* Lines 155-185: the empty-frame guard, then the moving-average factor.
ShortMa ==
    /\ sc_pc = "st_call"
    /\ IF df_len = 0
       THEN /\ sc_ret' = ScReturn("Neutral", <<>>, 0)
            /\ sc_pc' = "done"
            /\ UNCHANGED <<reading, sc_score, sc_details>>
       ELSE \E ma5 \in ({NaN} \cup Nums({10, 20})), ma20 \in ({NaN} \cup Nums({10, 20})), ma60 \in ({NaN} \cup Nums({5, 30})) :
            /\ reading' = [factor |-> "ma", ma5 |-> ma5, ma20 |-> ma20, ma60 |-> ma60]
            /\ Scored1(MaTrend(ma5, ma20, ma60), "MA Trend")
            /\ sc_pc' = "st_rsi"
            /\ UNCHANGED sc_ret
    /\ UNCHANGED <<sc_mode, df_len, info_empty, mkt_cap>>
    /\ UNCHANGED <<btVars, scanVars, feVars, trVars, mlVars>>

\* Lines 188-210.
ShortRsi ==
    /\ sc_pc = "st_rsi"
    /\ \E rsi \in ({NaN} \cup Nums({25, 30, 50, 60, 70, 80, 85})) :
        /\ reading' = [factor |-> "rsi", rsi |-> rsi]
        /\ Scored1(RsiFactor(rsi), "RSI")
    /\ sc_pc' = "st_macd"
    /\ UNCHANGED <<sc_mode, df_len, info_empty, mkt_cap, sc_ret>>
    /\ UNCHANGED <<btVars, scanVars, feVars, trVars, mlVars>>

\* Lines 213-228.
ShortMacd ==
    /\ sc_pc = "st_macd"
    /\ \E macd \in ({NaN} \cup Nums({0, 1})), signal_line \in ({NaN} \cup Nums({0, 1})) :
        /\ reading' = [factor |-> "macd", macd |-> macd, signal_line |-> signal_line]
        /\ Scored1(MacdFactor(macd, signal_line), "MACD")
    /\ sc_pc' = "st_chips"
    /\ UNCHANGED <<sc_mode, df_len, info_empty, mkt_cap, sc_ret>>
    /\ UNCHANGED <<btVars, scanVars, feVars, trVars, mlVars>>

\* Lines 231-251.
ShortInst ==
    /\ sc_pc = "st_chips"
    /\ \E inst_df \in InstFrames :
        /\ reading' = [factor |-> "chips", inst_df |-> inst_df]
        /\ Scored1(ShortChips(inst_df), "Chips")
    /\ sc_pc' = "st_volume"
    /\ UNCHANGED <<sc_mode, df_len, info_empty, mkt_cap, sc_ret>>
    /\ UNCHANGED <<btVars, scanVars, feVars, trVars, mlVars>>

\* Lines 254-271.
ShortVolume ==
    /\ sc_pc = "st_volume"
    /\ \E vols \in [1..(IF df_len < VOL_WINDOW THEN df_len ELSE VOL_WINDOW) -> {1, 3}] :
        /\ reading' = [factor |-> "volume", vols |-> vols]
        /\ Scored1(VolumeFactor(vols), "Volume")
    /\ sc_pc' = "st_kd"
    /\ UNCHANGED <<sc_mode, df_len, info_empty, mkt_cap, sc_ret>>
    /\ UNCHANGED <<btVars, scanVars, feVars, trVars, mlVars>>

\* Lines 274-314: the K/D factor, then the verdict.  iloc[-2] on a frame of
\* one row raises IndexError.
ShortKd ==
    /\ sc_pc = "st_kd"
    /\ IF df_len < KD_ROWS
       THEN /\ sc_ret' = [raised |-> TRUE, signal |-> "IndexError",
                            details |-> <<>>, score |-> 0]
            /\ sc_pc' = "raised"
            /\ UNCHANGED <<reading, sc_score, sc_details>>
       ELSE \E k \in ({NaN} \cup Nums({10, 20, 80, 90})), d \in Nums({5, 50, 95}), prev_k \in Nums({10, 90}), prev_d \in Nums({50}) :
            /\ reading' = [factor |-> "kd", k |-> k, d |-> d,
                           prev_k |-> prev_k, prev_d |-> prev_d]
            /\ Scored1(KdFactor(k, d, prev_k, prev_d), "KD")
            /\ sc_ret' = ScReturn(ShortTermSignal(sc_score'), sc_details', sc_score')
            /\ sc_pc' = "done"
    /\ UNCHANGED <<sc_mode, df_len, info_empty, mkt_cap>>
    /\ UNCHANGED <<btVars, scanVars, feVars, trVars, mlVars>>

(***************************************************************************)
(* analyze_long_term (analysis_engine.py:316-560)                          *)
(***************************************************************************)
\* info.get(key, default) for a key that may be absent.
GetOr(v, default) == IF v = None THEN Num(default) ELSE v

\* current_price < ma60 * 0.9 (price is the local current_price), compared after multiplying both sides by 10.
BelowMa60(price, ma60) == \E x \in price, y \in ma60 : 10 * x < 9 * y

TrendFilter(given, price, ma5, ma20, ma60) ==
    IF ~given THEN [delta |-> 0, signal |-> "Neutral"]
    ELSE IF Lt(ma5, ma20) /\ Lt(ma20, ma60) THEN [delta |-> -2, signal |-> "Bearish"]
    ELSE IF BelowMa60(price, ma60) THEN [delta |-> -1, signal |-> "Warning"]
    ELSE IF Gt(ma5, ma20) /\ Gt(ma20, ma60) THEN [delta |-> 1, signal |-> "Bullish"]
    ELSE [delta |-> 0, signal |-> "Neutral"]

\* Market capitalisation is in units of 10^9 TWD, return on equity in
\* percent: 500_000_000_000 is 500 and 0.15 is 15.
MoatFactor(cap, roe) ==
    IF Gt(cap, Num(500)) /\ Gt(roe, Num(15)) THEN [delta |-> 2, signal |-> "Bullish"]
    ELSE [delta |-> 0, signal |-> "Neutral"]

\* beta = info.get('beta3Year'); if not beta: beta = info.get('beta')
BetaOf(beta3Year, beta) == IF Truthy(beta3Year) THEN beta3Year ELSE beta

\* Beta is in hundredths: 0.8 is 80 and 1.5 is 150.
BetaFactor(beta) ==
    IF Truthy(beta)
    THEN IF Lt(beta, Num(80)) THEN [delta |-> 1, signal |-> "Bullish"]
         ELSE IF Gt(beta, Num(150)) THEN [delta |-> 0, signal |-> "Warning"]
         ELSE [delta |-> 0, signal |-> "Neutral"]
    ELSE [delta |-> 0, signal |-> "Neutral"]

PeFactor(pe) ==
    IF Truthy(pe)
    THEN IF Lt(pe, Num(15)) THEN [delta |-> 2, signal |-> "Bullish"]
         ELSE IF Lt(pe, Num(25)) THEN [delta |-> 1, signal |-> "Bullish"]
         ELSE [delta |-> 0, signal |-> "Warning"]
    ELSE [delta |-> 0, signal |-> "Neutral"]

\* yield_val is in percent, so that yield_pct = yield_val * 100 is the number
\* itself.
YieldFactor(yield_val) ==
    IF Truthy(yield_val)
    THEN IF Gt(yield_val, Num(4)) THEN [delta |-> 2, signal |-> "Bullish"]
         ELSE IF Gt(yield_val, Num(2)) THEN [delta |-> 1, signal |-> "Bullish"]
         ELSE [delta |-> 0, signal |-> "Neutral"]
    ELSE [delta |-> 0, signal |-> "Neutral"]

CapFactor(cap) ==
    IF Gt(cap, Num(100)) THEN [delta |-> 1, signal |-> "Bullish"]
    ELSE [delta |-> 0, signal |-> "Neutral"]

LongChips(inst_df) ==
    IF InstGiven(inst_df)
    THEN LET total_buy == NetBuy(inst_df.rows)
         IN  IF total_buy > 0 THEN [delta |-> 1, signal |-> "Bullish"]
             ELSE [delta |-> 0, signal |-> "Neutral"]
    ELSE [delta |-> 0, signal |-> "Neutral"]

\* stock_obj.quarterly_financials: the 'Gross Profit' and 'Total Revenue' rows,
\* latest quarter first.  margin > margin_prev is compared after multiplying
\* both sides by the two (positive) revenues.  Whatever the try block raises,
\* iloc[1] on a single quarter included, is caught and leaves the factor at 0.
FinFactor(stock_obj) ==
    IF /\ stock_obj.kind = "rows"
       /\ Len(stock_obj.gp) >= 2
       /\ stock_obj.gp[1] * stock_obj.rev[2] > stock_obj.gp[2] * stock_obj.rev[1]
    THEN [delta |-> 1, signal |-> "Bullish"]
    ELSE [delta |-> 0, signal |-> "Neutral"]

StockObjs ==
    {[kind |-> kd, gp |-> <<>>, rev |-> <<>>] :
        kd \in {"None", "raises", "empty", "norows"}}
    \cup {[kind |-> "rows", gp |-> g, rev |-> r] :
            g \in [1..1 -> {1, 2}] \cup [1..2 -> {1, 2}],
            r \in {<<4, 4>>, <<4, 8>>}}

\* Lines 327-369: the `not info` guard, then the trend filter.
LongTrend ==
    /\ sc_pc = "lt_call"
    /\ IF info_empty
       THEN /\ sc_ret' = ScReturn("Neutral", <<>>, 0)
            /\ sc_pc' = "done"
            /\ UNCHANGED <<reading, sc_score, sc_details>>
       ELSE /\ IF df_len = 0
               THEN /\ reading' = [factor |-> "trend", given |-> FALSE]
                    /\ Scored1(TrendFilter(FALSE, NaN, NaN, NaN, NaN), "Trend")
               ELSE \E price \in Nums({4, 26, 27}), ma5 \in ({NaN} \cup Nums({10, 20})),
                       ma20 \in ({NaN} \cup Nums({10, 20})), ma60 \in ({NaN} \cup Nums({5, 30})) :
                    /\ reading' = [factor |-> "trend", given |-> TRUE,
                                   current_price |-> price, ma5 |-> ma5,
                                   ma20 |-> ma20, ma60 |-> ma60]
                    /\ Scored1(TrendFilter(TRUE, price, ma5, ma20, ma60), "Trend")
            /\ sc_pc' = "lt_moat"
            /\ UNCHANGED sc_ret
    /\ UNCHANGED <<sc_mode, df_len, info_empty, mkt_cap>>
    /\ UNCHANGED <<btVars, scanVars, feVars, trVars, mlVars>>

\* Lines 371-391.
LongMoat ==
    /\ sc_pc = "lt_moat"
    /\ \E cap \in ({None} \cup Nums({100, 101, 500, 501})), roe \in ({None} \cup Nums({15, 16})) :
        /\ mkt_cap' = GetOr(cap, 0)
        /\ reading' = [factor |-> "moat", roe |-> GetOr(roe, 0)]
        /\ Scored1(MoatFactor(GetOr(cap, 0), GetOr(roe, 0)), "Moat")
    /\ sc_pc' = "lt_beta"
    /\ UNCHANGED <<sc_mode, df_len, info_empty, sc_ret>>
    /\ UNCHANGED <<btVars, scanVars, feVars, trVars, mlVars>>

\* Lines 393-418.
LongBeta ==
    /\ sc_pc = "lt_beta"
    /\ \E beta3Year \in ({None} \cup Nums({0, 80})), beta \in ({None} \cup Nums({0, 79, 151})) :
        /\ reading' = [factor |-> "beta", beta |-> BetaOf(beta3Year, beta)]
        /\ Scored1(BetaFactor(BetaOf(beta3Year, beta)), "Beta")
    /\ sc_pc' = "lt_pe"
    /\ UNCHANGED <<sc_mode, df_len, info_empty, mkt_cap, sc_ret>>
    /\ UNCHANGED <<btVars, scanVars, feVars, trVars, mlVars>>

\* Lines 420-442.
LongPe ==
    /\ sc_pc = "lt_pe"
    /\ \E pe \in ({None} \cup Nums({0, 14, 15, 24, 25})) :
        /\ reading' = [factor |-> "pe", pe |-> pe]
        /\ Scored1(PeFactor(pe), "P/E")
    /\ sc_pc' = "lt_yield"
    /\ UNCHANGED <<sc_mode, df_len, info_empty, mkt_cap, sc_ret>>
    /\ UNCHANGED <<btVars, scanVars, feVars, trVars, mlVars>>

\* Lines 444-466.
LongYield ==
    /\ sc_pc = "lt_yield"
    /\ \E yield_val \in ({None} \cup Nums({0, 2, 3, 4, 5})) :
        /\ reading' = [factor |-> "yield", yield_val |-> yield_val]
        /\ Scored1(YieldFactor(yield_val), "Yield")
    /\ sc_pc' = "lt_cap"
    /\ UNCHANGED <<sc_mode, df_len, info_empty, mkt_cap, sc_ret>>
    /\ UNCHANGED <<btVars, scanVars, feVars, trVars, mlVars>>

\* Lines 468-483: info.get('marketCap', 0) again, the mapping unchanged.
LongCap ==
    /\ sc_pc = "lt_cap"
    /\ reading' = [factor |-> "cap", cap |-> mkt_cap]
    /\ Scored1(CapFactor(mkt_cap), "Market Cap")
    /\ sc_pc' = "lt_chips"
    /\ UNCHANGED <<sc_mode, df_len, info_empty, mkt_cap, sc_ret>>
    /\ UNCHANGED <<btVars, scanVars, feVars, trVars, mlVars>>

\* Lines 485-504.
LongInst ==
    /\ sc_pc = "lt_chips"
    /\ \E inst_df \in InstFrames :
        /\ reading' = [factor |-> "chips", inst_df |-> inst_df]
        /\ Scored1(LongChips(inst_df), "Chips")
    /\ sc_pc' = "lt_fin"
    /\ UNCHANGED <<sc_mode, df_len, info_empty, mkt_cap, sc_ret>>
    /\ UNCHANGED <<btVars, scanVars, feVars, trVars, mlVars>>

\* Lines 506-560: the financial-health factor, then the verdict.
LongFin ==
    /\ sc_pc = "lt_fin"
    /\ \E stock_obj \in StockObjs :
        /\ reading' = [factor |-> "fin", stock_obj |-> stock_obj]
        /\ Scored1(FinFactor(stock_obj), "Financials")
    /\ sc_ret' = ScReturn(LongTermSignal(sc_score'), sc_details', sc_score')
    /\ sc_pc' = "done"
    /\ UNCHANGED <<sc_mode, df_len, info_empty, mkt_cap>>
    /\ UNCHANGED <<btVars, scanVars, feVars, trVars, mlVars>>

\* The scorer is called with a frame of some length and a fundamentals
\* mapping that is empty or not.
ScInit ==
    /\ sc_mode \in {"short", "long"}
    /\ sc_pc = IF sc_mode = "short" THEN "st_call" ELSE "lt_call"
    /\ df_len \in FrameLens
    /\ info_empty \in BOOLEAN
    /\ reading = NoReading
    /\ mkt_cap = None
    /\ sc_score = 0
    /\ sc_details = <<>>
    /\ sc_ret = NoReturn

ScIdle ==
    /\ sc_pc = "off"
    /\ sc_mode = "short"
    /\ df_len = 0
    /\ info_empty = TRUE
    /\ reading = NoReading
    /\ mkt_cap = None
    /\ sc_score = 0
    /\ sc_details = <<>>
    /\ sc_ret = NoReturn

(***************************************************************************)
(* FeatureBuilder: create_features (feature_engineering.py:51-128)         *)
(***************************************************************************)
\* Window lengths and the number of lags.
RSI_PERIOD == 14

RET_SPAN == 5

VOL_PERIOD == 20

LAGS == 3

\* Closing prices of the specification's label example.
LabelExample == <<100, 102, 101, 105>>

Bar(c, date) ==
    [Date |-> date, Close |-> c, High |-> c + 1, Low |-> c - 1, Volume |-> 1000 + date]

\* A series of n daily bars from date `start`: flat at 100 when ph = 0, else
\* cycling through the example closes from its ph-th value.
Series(n, start, ph) ==
    [t \in 1..n |->
        Bar(IF ph = 0 THEN LabelExample[1]
            ELSE LabelExample[((t + ph - 2) % Len(LabelExample)) + 1],
            start + t - 1)]

\* A computed value is a set of at most one element, {} being NaN; a value
\* whose arithmetic is not spelled out stands as the tuple of the numbers it
\* is computed from, so two values are equal iff their inputs are.
Closes(df, lo, hi) == {[u \in 1..(hi - lo + 1) |-> df[lo + u - 1].Close]}

\* close.pct_change(n) at row t.
PctChange(df, t, n) == IF t > n THEN {<<df[t - n].Close, df[t].Close>>} ELSE NaN

\* compute_rsi: delta's NaN of the first row counts as a gain and loss of 0, so
\* the rolling means exist from row RSI_PERIOD; a window without any falling
\* close has avg_loss = 0, which replace(0, nan) turns into a NaN RSI.
ComputeRsi(df, t) ==
    LET lo == IF t > RSI_PERIOD THEN t - RSI_PERIOD ELSE 1
    IN  IF t >= RSI_PERIOD /\ \E u \in (lo + 1)..t : df[u].Close < df[u - 1].Close
        THEN Closes(df, lo, t) ELSE NaN

\* compute_macd: the three exponentially weighted means run over every close
\* up to row t and exist from the first row.
ComputeMacd(df, t) == Closes(df, 1, t)

\* features['ret_1d'].rolling(20, min_periods=20).std(): ret_1d is NaN on the
\* first row.
Volatility(df, t) == IF t > VOL_PERIOD THEN Closes(df, t - VOL_PERIOD, t) ELSE NaN

\* (close - ma_20) / ma_20 with ma_20 = close.rolling(20, min_periods=20).mean().
Bias(df, t) == IF t >= VOL_PERIOD THEN Closes(df, t - VOL_PERIOD + 1, t) ELSE NaN

HlRange(df, t) ==
    IF df[t].Close = 0 THEN NaN ELSE {<<df[t].High, df[t].Low, df[t].Close>>}

CloseLead(df, t, k) == IF t + k <= Len(df) THEN {df[t + k].Close} ELSE NaN

\* close.shift(k), volume.shift(k), features['ret_1d'].shift(k)
CloseLag(df, t, k) == IF t > k THEN {df[t - k].Close} ELSE NaN

VolumeLag(df, t, k) == IF t > k THEN {df[t - k].Volume} ELSE NaN

RetLag(df, t, k) == IF t > k THEN PctChange(df, t - k, 1) ELSE NaN

TargetOnTie(df, t) ==
    IF t = Len(df) THEN NaN
    ELSE IF df[t + 1].Close >= df[t].Close THEN Num(1) ELSE Num(0)

\* (close.shift(-1) > close).astype(float), then NaN on the last row.
Target(df, t) ==
    IF t = Len(df) THEN NaN
    ELSE IF df[t + 1].Close > df[t].Close THEN Num(1) ELSE Num(0)

\* One row of the frame create_features returns (add_kd = False,
\* include_target = True); macd stands for the three MACD columns.
FeatureRow(df, t) ==
    [Date |-> df[t].Date,
     rsi_14 |-> ComputeRsi(df, t),
     macd |-> ComputeMacd(df, t),
     ret_1d |-> PctChange(df, t, 1),
     ret_5d |-> PctChange(df, t, RET_SPAN),
     volatility_20d |-> Volatility(df, t),
     bias_20 |-> Bias(df, t),
     hl_range |-> HlRange(df, t),
     close_lag |-> [k \in 1..LAGS |-> CloseLag(df, t, k)],
     volume_lag |-> [k \in 1..LAGS |-> VolumeLag(df, t, k)],
     ret_1d_lag |-> [k \in 1..LAGS |-> RetLag(df, t, k)],
     target |-> Target(df, t)]

\* An empty frame in, an empty frame out (lines 65-66).
CreateFeatures(df) == [t \in 1..Len(df) |-> FeatureRow(df, t)]

\* The row without its label.
FeaturesOf(row) == [c \in DOMAIN row \ {"target"} |-> row[c]]

\* A second series that agrees with df up to row c: later bars altered, a
\* bar appended, or the later bars removed.
Altered(df, c, how) ==
    CASE how = "altered" ->
            [t \in 1..Len(df) |->
                IF t <= c THEN df[t]
                ELSE [Date |-> df[t].Date, Close |-> df[t].Close + 7,
                      High |-> df[t].High + 9, Low |-> df[t].Low + 5,
                      Volume |-> df[t].Volume + 1]]
      [] how = "appended" -> Append(df, Bar(99, Len(df) + 1))
      [] how = "removed" -> SubSeq(df, 1, c)

FeInit ==
    /\ fe_pc = "call"
    /\ \E n \in {0, 1, 2, Len(LabelExample), MaxBars}, ph \in 0..Len(LabelExample) : bars = Series(n, 1, ph)
    /\ cut \in 0..Len(bars)
    /\ \E how \in {"altered", "appended", "removed"} : bars_alt = Altered(bars, cut, how)
    /\ features = <<>>
    /\ features_alt = <<>>

\* create_features(bars)
FeCall ==
    /\ fe_pc = "call"
    /\ features' = CreateFeatures(bars)
    /\ fe_pc' = "again"
    /\ UNCHANGED <<bars, bars_alt, cut, features_alt>>
    /\ UNCHANGED <<btVars, scanVars, scVars, trVars, mlVars>>

\* create_features(bars_alt)
FeCallAltered ==
    /\ fe_pc = "again"
    /\ features_alt' = CreateFeatures(bars_alt)
    /\ fe_pc' = "done"
    /\ UNCHANGED <<bars, bars_alt, cut, features>>
    /\ UNCHANGED <<btVars, scanVars, scVars, trVars, mlVars>>

FeIdle ==
    /\ fe_pc = "off"
    /\ bars = <<>> /\ bars_alt = <<>> /\ cut = 0
    /\ features = <<>> /\ features_alt = <<>>

(***************************************************************************)
(* ModelTrainer: train_random_forest (model_trainer.py:19-183)             *)
(***************************************************************************)
MIN_TRAIN_ROWS == 50

\* What the trainer keeps of a feature row: the frame and row it came from,
\* its index label, whether any feature is NaN, and its target.
TrainRow(src, df, t) ==
    LET row == FeatureRow(df, t)
    IN  [src |-> src, t |-> t, Date |-> row.Date,
         nan_feature |->
            \/ \E c \in {"rsi_14", "macd", "ret_1d", "ret_5d", "volatility_20d",
                         "bias_20", "hl_range"} : row[c] = NaN
            \/ \E k \in 1..LAGS : \/ row.close_lag[k] = NaN
                                  \/ row.volume_lag[k] = NaN
                                  \/ row.ret_1d_lag[k] = NaN,
         target |-> row.target]

FrameRows(src, df) == [t \in 1..Len(df) |-> TrainRow(src, df, t)]

\* pd.concat of the frames of the list that are not empty, in list order.
RECURSIVE Concat(_, _)
Concat(frames, k) ==
    IF k > Len(frames) THEN <<>>
    ELSE FrameRows(k, frames[k]) \o Concat(frames, k + 1)

\* The rows with index labels d..hi, label after label.  Rows of one label
\* stay in their order ("kept") or come out reversed.
RECURSIVE SortFrom(_, _, _, _)
SortFrom(rows, d, hi, tie) ==
    IF d > hi THEN <<>>
    ELSE LET same == SelectSeq(rows, LAMBDA r : r.Date = d)
             n == Len(same)
         IN  (IF tie = "kept" THEN same ELSE [k \in 1..n |-> same[n + 1 - k]])
             \o SortFrom(rows, d + 1, hi, tie)

KeepOrder(rows, tie) == rows

\* sort_index(): ascending by index label.  The default sort is not stable,
\* so the order of rows with equal labels is not fixed.
SortIndex(rows, tie) ==
    IF rows = <<>> THEN <<>>
    ELSE LET dates == {rows[k].Date : k \in 1..Len(rows)}
             lo == CHOOSE d \in dates : \A e \in dates : d <= e
             hi == CHOOSE d \in dates : \A e \in dates : d >= e
         IN  SortFrom(rows, lo, hi, tie)

HasNaN(r) == r.nan_feature \/ r.target = NaN

FillNa(rows) ==
    [k \in 1..Len(rows) |->
        IF rows[k].target = NaN THEN [rows[k] EXCEPT !.target = Num(0)] ELSE rows[k]]

\* combined_df.dropna()
DropNa(rows) == SelectSeq(rows, LAMBDA r : ~HasNaN(r))

\* feature_df.dropna(subset=[target_col])
DropNaTarget(rows) == SelectSeq(rows, LAMBDA r : r.target # NaN)

TooFewUpToMin(n) == n <= MIN_TRAIN_ROWS

\* len(combined_df) < 50
TooFew(n) == n < MIN_TRAIN_ROWS

\* int(n * (1 - test_size)), test_size in percent
SplitIdx(n, pct) == (n * (100 - pct)) \div 100

Failure(msg) ==
    [model |-> "None", error |-> msg, train_rows |-> 0, test_rows |-> 0]

NoResult == [model |-> "None", error |-> "pending", train_rows |-> 0, test_rows |-> 0]

\* Series the trainer is given: long enough for 50, 49, 25 and no usable
\* rows, starting on two different dates, and one flat series.
TrainSeries ==
    {Series(n, start, 1) :
        n \in {0, Len(LabelExample), MIN_TRAIN_ROWS \div 2 + VOL_PERIOD + 1,
               MIN_TRAIN_ROWS + VOL_PERIOD, MIN_TRAIN_ROWS + VOL_PERIOD + 1},
        start \in {1, 11}}
    \cup {Series(MIN_TRAIN_ROWS + VOL_PERIOD + 1, 1, 0)}

TrInit ==
    /\ tr_pc = "call"
    /\ data \in [isList : {FALSE}, frames : [1..1 -> TrainSeries]]
            \cup [isList : {TRUE}, frames : UNION {[1..n -> TrainSeries] : n \in 1..MaxFrames}]
    \* test_size in percent; 0.2 is the default.
    /\ test_size \in {20, 25, 50}
    /\ ties \in {"kept", "reversed"}
    /\ combined_df = <<>>
    /\ train_df = <<>>
    /\ test_df = <<>>
    /\ tr_ret = NoResult

\* Lines 104-135: features of every frame, concatenated and sorted.
TrCollect ==
    /\ tr_pc = "call"
    /\ LET rows == IF data.isList THEN SortIndex(Concat(data.frames, 1), ties)
                   ELSE FrameRows(1, data.frames[1])
       IN  IF rows = <<>>
           THEN /\ tr_ret' = Failure(IF data.isList THEN "No valid data" ELSE "Empty dataset")
                /\ tr_pc' = "done"
                /\ UNCHANGED combined_df
           ELSE /\ combined_df' = rows
                /\ tr_pc' = "dropna"
                /\ UNCHANGED tr_ret
    /\ UNCHANGED <<data, test_size, ties, train_df, test_df>>
    /\ UNCHANGED <<btVars, scanVars, scVars, feVars, mlVars>>

\* Lines 137-142.
TrDropNa ==
    /\ tr_pc = "dropna"
    /\ combined_df' = DropNa(combined_df)
    /\ IF TooFew(Len(combined_df'))
       THEN tr_ret' = Failure("Too few rows") /\ tr_pc' = "done"
       ELSE UNCHANGED tr_ret /\ tr_pc' = "split"
    /\ UNCHANGED <<data, test_size, ties, train_df, test_df>>
    /\ UNCHANGED <<btVars, scanVars, scVars, feVars, mlVars>>

\* Lines 145-147, time_series_train_test_split (lines 33-51).
TrSplit ==
    /\ tr_pc = "split"
    /\ LET df == SortIndex(DropNaTarget(combined_df), ties)
           split_idx == SplitIdx(Len(df), test_size)
       IN  /\ train_df' = SubSeq(df, 1, split_idx)
           /\ test_df' = SubSeq(df, split_idx + 1, Len(df))
    /\ tr_pc' = "fit"
    /\ UNCHANGED <<data, test_size, ties, combined_df, tr_ret>>
    /\ UNCHANGED <<btVars, scanVars, scVars, feVars, mlVars>>

\* Lines 150-183: model.fit(X_train, y_train), evaluation, the result.
TrFit ==
    /\ tr_pc = "fit"
    /\ tr_ret' = [model |-> "RandomForestClassifier", error |-> "",
                  train_rows |-> Len(train_df), test_rows |-> Len(test_df)]
    /\ tr_pc' = "done"
    /\ UNCHANGED <<data, test_size, ties, combined_df, train_df, test_df>>
    /\ UNCHANGED <<btVars, scanVars, scVars, feVars, mlVars>>

TrIdle ==
    /\ tr_pc = "off"
    /\ data = [isList |-> TRUE, frames |-> <<>>]
    /\ test_size = 20
    /\ ties = "kept"
    /\ combined_df = <<>> /\ train_df = <<>> /\ test_df = <<>>
    /\ tr_ret = NoResult

(***************************************************************************)
(* Model payload: fit_from_pooled, save_model, load_model_payload,         *)
(* predict_proba_latest (model_trainer.py:54-83, 143-320) and the column   *)
(* alignment of run_backtest (backtest_engine.py:46-82)                    *)
(***************************************************************************)
RF_SMALL_ROWS == 1000

\* A column name is <<stem, k>>: f'close_lag{k}' is <<"close_lag", k>>, a
\* name without a number has k = 0.
Col(stem) == <<stem, 0>>

\* The columns of the frame create_features builds, in the order in which
\* lines 84-116 assign them: the three lag columns of lag 1, then those of
\* lag 2, ...
FeatureColumns(add_kd) ==
    << Col("rsi_14"), Col("macd"), Col("macd_signal"), Col("macd_hist"),
       Col("ret_1d"), Col("ret_5d"), Col("volatility_20d"), Col("bias_20"),
       Col("hl_range") >>
    \o [j \in 1..(3 * LAGS) |->
            << <<"close_lag", "volume_lag", "ret_1d_lag">>[((j - 1) % 3) + 1],
               ((j - 1) \div 3) + 1 >>]
    \o (IF add_kd THEN << Col("stoch_k"), Col("stoch_d") >> ELSE <<>>)

\* get_feature_columns (feature_engineering.py:131-142): the literal list.
GetFeatureColumns(add_kd) ==
    << Col("rsi_14"), Col("macd"), Col("macd_signal"), Col("macd_hist"),
       Col("ret_1d"), Col("ret_5d"), Col("volatility_20d"), Col("bias_20"),
       Col("hl_range"),
       <<"close_lag", 1>>, <<"close_lag", 2>>, <<"close_lag", 3>>,
       <<"volume_lag", 1>>, <<"volume_lag", 2>>, <<"volume_lag", 3>>,
       <<"ret_1d_lag", 1>>, <<"ret_1d_lag", 2>>, <<"ret_1d_lag", 3>> >>
    \o (IF add_kd THEN << Col("stoch_k"), Col("stoch_d") >> ELSE <<>>)

GetRfParamsFromThousandOne(n_rows) ==
    IF n_rows <= RF_SMALL_ROWS
    THEN [n_estimators |-> 50, max_depth |-> Num(5), min_samples_leaf |-> 10]
    ELSE [n_estimators |-> 100, max_depth |-> None, min_samples_leaf |-> 2]

\* get_rf_params (model_trainer.py:54-83); max_features, random_state and
\* n_jobs are the same in both tiers and are left out.
GetRfParams(n_rows) ==
    IF n_rows < RF_SMALL_ROWS
    THEN [n_estimators |-> 50, max_depth |-> Num(5), min_samples_leaf |-> 10]
    ELSE [n_estimators |-> 100, max_depth |-> None, min_samples_leaf |-> 2]

\* RandomForestClassifier(**rf_params).fit(X_train, y_train): the classifier
\* keeps its parameters and the columns of X_train.
Fit(rf_params, x_cols) == [params |-> rf_params, fit_cols |-> x_cols]

\* train_random_forest from line 137 on, for a combined_df of n_rows rows
\* without NaN built by create_features(add_kd): the rows themselves are the
\* subject of TrDropNa, TrSplit and TrFit.
TrainResult(n_rows, pct, add_kd) ==
    IF TooFew(n_rows)
    THEN [model |-> None, feature_cols |-> <<>>, train_rows |-> 0, test_rows |-> 0,
          rf_params |-> None, error |-> "Too few rows"]
    ELSE LET columns == FeatureColumns(add_kd) \o << Col("target") >>
             x_cols == SelectSeq(columns, LAMBDA c : c # Col("target"))   \* line 44
             n_train == SplitIdx(n_rows, pct)
             rf_params == GetRfParams(n_train)                            \* line 150
             feature_cols == SelectSeq(columns, LAMBDA c : c # Col("target"))  \* line 171
         IN  [model |-> Num(Fit(rf_params, x_cols)), feature_cols |-> feature_cols,
              train_rows |-> n_train, test_rows |-> n_rows - n_train,
              rf_params |-> Num(rf_params), error |-> ""]

\* A dict is a record whose values are sets of at most one element ({} is
\* None); metadata is a set of <<key, value>> pairs.
\* d.get(key, default)
GetDefault(d, key, default) == IF key \in DOMAIN d THEN d[key] ELSE default

\* save_model lines 198-206: `metadata or {...}` takes the default for None
\* and for an empty dict.
Payload(model, feature_cols, metadata) ==
    [model_type |-> Num("sklearn_rf"), model |-> model,
     feature_cols |-> feature_cols,
     metadata |-> IF metadata = None \/ metadata = Num({})
                  THEN Num({<<"feature_set_version", "v1">>, <<"trained_at", "now">>})
                  ELSE metadata]

\* joblib.dump: the dict's entries, one after the other in insertion order.
Dump(payload) ==
    LET keys == <<"model_type", "model", "feature_cols", "metadata">>
    IN  [j \in 1..Len(keys) |-> <<keys[j], payload[keys[j]]>>]

\* joblib.load: the dict rebuilt from the entries.
Load(entries) ==
    [key \in {entries[j][1] : j \in 1..Len(entries)} |->
        entries[CHOOSE j \in 1..Len(entries) : entries[j][1] = key][2]]

NoMatrix == [given |-> FALSE, cols |-> <<>>, zero |-> {}]

AlignKeepComputed(computed, cols) ==
    [given |-> TRUE, cols |-> computed, zero |-> {}]

\* backtest_engine.py:66-70 and model_trainer.py:269-273: the listed columns
\* that were not computed are added as 0, then the frame is indexed by the
\* list.  zero: the positions of the matrix that hold the added 0.
Align(computed, cols) ==
    [given |-> TRUE, cols |-> cols,
     zero |-> {j \in 1..Len(cols) : \A m \in 1..Len(computed) : computed[m] # cols[j]}]

\* What the caller may hand to the inference functions, given what
\* load_model_payload returned: that value itself, its bare classifier, or a
\* payload that lacks its classifier or its column list.
ModelOrPayloads(loaded) ==
    {[isDict |-> loaded # None, value |-> loaded]}
    \cup UNION {
          {[isDict |-> FALSE, value |-> pl.model],
           [isDict |-> TRUE, value |-> Num([model_type |-> pl.model_type,
                                            feature_cols |-> pl.feature_cols,
                                            metadata |-> pl.metadata])],
           [isDict |-> TRUE, value |-> Num([pl EXCEPT !.model = None])],
           [isDict |-> TRUE, value |-> Num([model_type |-> pl.model_type,
                                            model |-> pl.model,
                                            metadata |-> pl.metadata])],
           [isDict |-> TRUE, value |-> Num([pl EXCEPT !.feature_cols = None])]}
          : pl \in loaded}

\* predict_proba_latest (model_trainer.py:247-290).  behaviour is what
\* model.predict_proba does: "raises", "onecol", or "two" with P(up) = prob.
PredictProbaLatest(mp, bars_kind, feature_cols, add_kd, behaviour, prob) ==
    LET model == IF mp.isDict THEN UNION {GetDefault(pl, "model", None) : pl \in mp.value}
                 ELSE mp.value
        cols == IF mp.isDict
                THEN UNION {GetDefault(pl, "feature_cols", feature_cols) : pl \in mp.value}
                ELSE feature_cols
    IN  IF model = None \/ cols = None
          THEN [out |-> [raised |-> FALSE, value |-> NEUTRAL_PROB], matrix |-> NoMatrix]
        ELSE IF bars_kind = "empty"
          THEN [out |-> [raised |-> FALSE, value |-> NEUTRAL_PROB], matrix |-> NoMatrix]
        ELSE LET latest == Align(FeatureColumns(add_kd), CHOOSE c \in cols : TRUE)
             IN  [out |-> IF behaviour = "two" THEN [raised |-> FALSE, value |-> prob]
                          ELSE [raised |-> FALSE, value |-> NEUTRAL_PROB],      \* except / one column
                  matrix |-> latest]

\* run_backtest lines 42-82, with the columns spelled out; bars_kind: "empty"
\* is no series or fewer than MIN_BARS bars, "short" leaves fewer than
\* MIN_BARS feature rows, "ok" leaves MIN_BARS or more.
BacktestPredict(mp, bars_kind, add_kd, behaviour) ==
    LET model == IF mp.isDict THEN UNION {GetDefault(pl, "model", None) : pl \in mp.value}
                 ELSE mp.value
        feature_cols == IF mp.isDict
                        THEN UNION {GetDefault(pl, "feature_cols", None) : pl \in mp.value}
                        ELSE Num(GetFeatureColumns(add_kd))
    IN  IF bars_kind = "empty"
          THEN [out |-> [raised |-> FALSE, value |-> "Insufficient data"], matrix |-> NoMatrix]
        ELSE IF model = None
          THEN [out |-> [raised |-> FALSE, value |-> "No model provided"], matrix |-> NoMatrix]
        ELSE IF bars_kind = "short"
          THEN [out |-> [raised |-> FALSE, value |-> "Failed to compute features"],
                matrix |-> NoMatrix]
        ELSE IF feature_cols = None                                   \* set(None), line 66
          THEN [out |-> [raised |-> TRUE, value |-> "TypeError"], matrix |-> NoMatrix]
        ELSE LET feat_df == Align(FeatureColumns(add_kd), CHOOSE c \in feature_cols : TRUE)
             IN  [out |-> IF behaviour = "raises" THEN [raised |-> FALSE, value |-> "Prediction failed"]
                          ELSE [raised |-> FALSE, value |-> "None"],
                  matrix |-> feat_df]

(***************************************************************************)
(* Model payload: actions                                                  *)
(***************************************************************************)
NoTrainResult ==
    [model |-> None, feature_cols |-> <<>>, train_rows |-> 0, test_rows |-> 0,
     rf_params |-> None, error |-> "pending"]

NoSave == [by |-> "none", model |-> None, feature_cols |-> None, metadata |-> None]

NoCall ==
    [fn |-> "none", mp |-> [isDict |-> FALSE, value |-> None], feature_cols |-> None,
     add_kd |-> FALSE, bars_kind |-> "empty", behaviour |-> "two"]

MlInit ==
    /\ ml_pc = "start"
    /\ ml_result = NoTrainResult
    /\ ml_saved = NoSave
    /\ ml_file = <<>>
    /\ ml_disk = "absent"
    /\ ml_loaded = None
    /\ ml_call = NoCall
    /\ ml_matrix = NoMatrix
    /\ ml_out = [raised |-> FALSE, value |-> 0]

\* fit_from_pooled (model_trainer.py:293-320) on a list whose frames give
\* n_rows rows without NaN; test_size in percent.
FitFromPooled ==
    /\ ml_pc = "start"
    /\ \E n_rows \in {MIN_TRAIN_ROWS - 1, MIN_TRAIN_ROWS, RF_SMALL_ROWS - 1,
                      RF_SMALL_ROWS + 249, RF_SMALL_ROWS + 250},
          pct \in {20, 25, 50}, add_kd \in BOOLEAN :
         LET r == TrainResult(n_rows, pct, add_kd)
             metadata == {<<"feature_set_version", "v1">>, <<"trained_at", "now">>,
                          <<"train_rows", r.train_rows>>, <<"test_rows", r.test_rows>>,
                          <<"rf_params", r.rf_params>>}
         IN  /\ ml_result' = r
             /\ IF r.model # None
                THEN /\ ml_saved' = [by |-> "fit_from_pooled", model |-> r.model,
                                     feature_cols |-> Num(r.feature_cols),
                                     metadata |-> Num(metadata)]
                     /\ ml_file' = Dump(Payload(r.model, Num(r.feature_cols), Num(metadata)))
                ELSE UNCHANGED <<ml_saved, ml_file>>
    /\ ml_pc' = "saved"
    /\ UNCHANGED <<ml_disk, ml_loaded, ml_call, ml_matrix, ml_out>>
    /\ UNCHANGED <<btVars, scanVars, scVars, feVars, trVars>>

\* save_model (model_trainer.py:186-209) called on its own.
SaveModel ==
    /\ ml_pc = "start"
    /\ \E model \in {Num(Fit(GetRfParams(MIN_TRAIN_ROWS), FeatureColumns(FALSE)))},
          feature_cols \in {Num(FeatureColumns(FALSE)), Num(GetFeatureColumns(TRUE))},
          metadata \in {None, Num({}), Num({<<"feature_set_version", "v2">>})} :
         /\ ml_saved' = [by |-> "save_model", model |-> model,
                         feature_cols |-> feature_cols, metadata |-> metadata]
         /\ ml_file' = Dump(Payload(model, feature_cols, metadata))
    /\ ml_pc' = "saved"
    /\ UNCHANGED <<ml_result, ml_disk, ml_loaded, ml_call, ml_matrix, ml_out>>
    /\ UNCHANGED <<btVars, scanVars, scVars, feVars, trVars>>

\* load_model_payload (model_trainer.py:212-222): the path has no file, the
\* file cannot be read (joblib.load raises), or it is read.
LoadModelPayload ==
    /\ ml_pc = "saved"
    /\ \E disk \in {"absent", "unreadable", "intact"} :
         /\ ml_disk' = IF ml_file = <<>> THEN "absent" ELSE disk
         /\ ml_loaded' = IF ml_file = <<>> \/ disk = "absent" THEN None     \* line 215
                         ELSE IF disk = "unreadable" THEN None             \* line 222
                         ELSE Num(Load(ml_file))
    /\ ml_pc' = "loaded"
    /\ UNCHANGED <<ml_result, ml_saved, ml_file, ml_call, ml_matrix, ml_out>>
    /\ UNCHANGED <<btVars, scanVars, scVars, feVars, trVars>>

\* A call of predict_proba_latest.
Predict ==
    /\ ml_pc = "loaded"
    /\ \E mp \in ModelOrPayloads(ml_loaded), bars_kind \in {"empty", "ok"},
          add_kd \in BOOLEAN, given \in BOOLEAN,
          b \in {<<"raises", 0>>, <<"onecol", 0>>, <<"two", 0>>, <<"two", 70>>, <<"two", 100>>} :
         LET feature_cols == IF given THEN Num(GetFeatureColumns(add_kd)) ELSE None
             r == PredictProbaLatest(mp, bars_kind, feature_cols, add_kd, b[1], b[2])
         IN  /\ ml_call' = [fn |-> "predict_proba_latest", mp |-> mp,
                            feature_cols |-> feature_cols, add_kd |-> add_kd,
                            bars_kind |-> bars_kind, behaviour |-> b[1]]
             /\ ml_out' = r.out
             /\ ml_matrix' = r.matrix
    /\ ml_pc' = "done"
    /\ UNCHANGED <<ml_result, ml_saved, ml_file, ml_disk, ml_loaded>>
    /\ UNCHANGED <<btVars, scanVars, scVars, feVars, trVars>>

\* A call of run_backtest, up to its model.predict_proba.
Backtest ==
    /\ ml_pc = "loaded"
    /\ \E mp \in ModelOrPayloads(ml_loaded), bars_kind \in {"empty", "short", "ok"},
          add_kd \in BOOLEAN, behaviour \in {"raises", "onecol", "two"} :
         LET r == BacktestPredict(mp, bars_kind, add_kd, behaviour)
         IN  /\ ml_call' = [fn |-> "run_backtest", mp |-> mp, feature_cols |-> None,
                            add_kd |-> add_kd, bars_kind |-> bars_kind,
                            behaviour |-> behaviour]
             /\ ml_out' = r.out
             /\ ml_matrix' = r.matrix
    /\ ml_pc' = "done"
    /\ UNCHANGED <<ml_result, ml_saved, ml_file, ml_disk, ml_loaded>>
    /\ UNCHANGED <<btVars, scanVars, scVars, feVars, trVars>>

MlIdle ==
    /\ ml_pc = "off"
    /\ ml_result = NoTrainResult
    /\ ml_saved = NoSave
    /\ ml_file = <<>>
    /\ ml_disk = "absent"
    /\ ml_loaded = None
    /\ ml_call = NoCall
    /\ ml_matrix = NoMatrix
    /\ ml_out = [raised |-> FALSE, value |-> 0]

\* The components not under study stay at rest.
BtIdle ==
    /\ bt_pc = "idle"
    /\ ohlcv_df = [isNone |-> TRUE, rows |-> 0, hasCols |-> FALSE]
    /\ model_or_payload = [isDict |-> FALSE, model |-> "None", feature_cols |-> "None"]
    /\ prob_len = 0 /\ i = 0
    /\ current_price = 0 /\ next_price = 0 /\ p = 0 /\ last_close = 0
    /\ holding = FALSE /\ entry_price = 0
    /\ trades = <<>> /\ portfolio_values = <<>>
    /\ result = EmptyResult
    /\ onExample = FALSE
    /\ num_entries = 0

ScanIdle ==
    /\ scan_pc = "off"
    /\ mode = "Short-term"
    /\ sector = "Memory"
    /\ outcome = <<>>
    /\ target_list = <<>>
    /\ completed = {}
    /\ recommendations = <<>>
    /\ top_picks = <<>>
    /\ warnings = <<>>

(***************************************************************************)
(* Specifications                                                          *)
(***************************************************************************)
Init == BtInit /\ ScanIdle /\ ScIdle /\ FeIdle /\ TrIdle /\ MlIdle

Next == Validate \/ Step \/ Finish

Spec == Init /\ [][Next]_vars

InitScan == ScanInit /\ BtIdle /\ ScIdle /\ FeIdle /\ TrIdle /\ MlIdle

NextScan == StartScan \/ (\E k \in 1..Len(target_list) : Complete(k)) \/ Rank

SpecScan == InitScan /\ [][NextScan]_vars

\* The scan under the assumption that every per-ticker task completes: the
\* pool runs every submitted task and the collecting loop is not suspended
\* for ever.
SpecScanLive ==
    /\ InitScan /\ [][NextScan]_vars
    /\ WF_vars(StartScan)
    /\ WF_vars(\E k \in 1..Len(target_list) : Complete(k))
    /\ WF_vars(Rank)

InitScore == ScInit /\ BtIdle /\ ScanIdle /\ FeIdle /\ TrIdle /\ MlIdle

NextScore ==
    \/ ShortMa \/ ShortRsi \/ ShortMacd \/ ShortInst \/ ShortVolume \/ ShortKd
    \/ LongTrend \/ LongMoat \/ LongBeta \/ LongPe \/ LongYield \/ LongCap
    \/ LongInst \/ LongFin

SpecScore == InitScore /\ [][NextScore]_vars

InitFeat == FeInit /\ BtIdle /\ ScanIdle /\ ScIdle /\ TrIdle /\ MlIdle

NextFeat == FeCall \/ FeCallAltered

SpecFeat == InitFeat /\ [][NextFeat]_vars

InitTrain == TrInit /\ BtIdle /\ ScanIdle /\ ScIdle /\ FeIdle /\ MlIdle

NextTrain == TrCollect \/ TrDropNa \/ TrSplit \/ TrFit

SpecTrain == InitTrain /\ [][NextTrain]_vars

InitModel == MlInit /\ BtIdle /\ ScanIdle /\ ScIdle /\ FeIdle /\ TrIdle

NextModel == FitFromPooled \/ SaveModel \/ LoadModelPayload \/ Predict \/ Backtest

SpecModel == InitModel /\ [][NextModel]_vars

(***************************************************************************)
(* Claims about run_backtest (specification Spec)                          *)
(***************************************************************************)
\* An iteration of the simulation loop has just run.
LoopStep == bt_pc = "sim" /\ bt_pc' = "sim" /\ i' = i + 1

RanExample == bt_pc = "done" /\ result.error = "None" /\ onExample

\* C1 (as stated): the scenario of four probabilities [0.7,0.7,0.3,0.3] over
\* four closes [10,11,12,13] yields exactly one trade.  Every call of
\* run_backtest on a four-row series with a working classifier would have to
\* end with one recorded trade.
C1_FourRowScenarioTrades ==
    (/\ bt_pc = "done"
     /\ ~ohlcv_df.isNone /\ ohlcv_df.hasCols
     /\ ohlcv_df.rows = Len(ExampleCloses)
     /\ model_or_payload.model = "ok"
     /\ SelectFeatureCols(model_or_payload) # "None")
    => (result.error = "None" /\ result.num_trades = 1)

\* C1 (amended): in a simulation (at least MIN_BARS rows), each session t
\* except the last makes exactly one of four moves: Flat and P(up) > buy ->
\* Long with entry close[t]; Flat otherwise -> Flat; Long and P(up) < sell ->
\* Flat plus one trade (entry, close[t+1], (exit - entry)/entry); Long
\* otherwise -> Long.  The scenario series continued by repeating its last
\* row ends with the single trade 10 -> 13, return 3/10.
C1_StateMachine ==
    /\ [][LoopStep =>
            /\ current_price' = last_close
            /\ (~holding /\ p' > BUY_THRESHOLD) =>
                  (holding' /\ entry_price' = current_price' /\ trades' = trades)
            /\ (~holding /\ ~(p' > BUY_THRESHOLD)) =>
                  (~holding' /\ trades' = trades)
            /\ (holding /\ p' < SELL_THRESHOLD) =>
                  /\ ~holding'
                  /\ trades' = Append(trades,
                        [entry |-> entry_price, exit |-> next_price',
                         return |-> Rat(next_price' - entry_price, entry_price)])
            /\ (holding /\ ~(p' < SELL_THRESHOLD)) =>
                  (holding' /\ entry_price' = entry_price /\ trades' = trades)]_vars
    /\ [](bt_pc = "sim" => i <= prob_len - 1)
    /\ [](RanExample =>
            /\ trades = << [entry |-> 10, exit |-> 13, return |-> <<3, 10>>] >>
            /\ result.num_trades = 1)

\* C1 witness: the continued scenario has run to its end and sold once.
C1_Witness == RanExample /\ Len(trades) = 1 /\ ~holding /\ ohlcv_df.rows = MIN_BARS

\* C2: a session whose P(up) equals buy_threshold never opens a position and
\* a session whose P(up) equals sell_threshold never closes one.
C2_StrictThresholds ==
    [][LoopStep =>
          /\ (~holding /\ p' = BUY_THRESHOLD) => (~holding' /\ num_entries' = num_entries)
          /\ (holding /\ p' = SELL_THRESHOLD) => (holding' /\ trades' = trades)]_vars

\* C2 witness: Long since session 0; session 1 read P(up) = sell_threshold
\* and the position is still open.
C2_Witness ==
    /\ bt_pc = "sim" /\ i = 2
    /\ holding /\ p = SELL_THRESHOLD /\ trades = <<>> /\ num_entries = 1

\* C3: at the end of a simulation every Flat -> Long transition has its trade:
\* a position still open after the last decision session is closed by one
\* more trade at the final close of the series.
C3_NoOpenPosition ==
    (bt_pc = "done" /\ result.error = "None") =>
        /\ Len(trades) = num_entries
        /\ result.num_trades = num_entries
        /\ holding =>
              trades[Len(trades)] =
                  [entry |-> entry_price, exit |-> last_close,
                   return |-> Rat(last_close - entry_price, entry_price)]

\* C3 witness: a run that sold once, bought again and was still Long at the end.
C3_Witness ==
    bt_pc = "done" /\ result.error = "None" /\ holding /\ Len(trades) = 2

\* C4: every failure of run_backtest is a value, never an exception: too few
\* bars, no classifier, failed features or a raising classifier give an error
\* string with zeroed metrics, and a null error comes only from a completed
\* simulation.
C4_FailuresAreValues ==
    /\ bt_pc # "raised"
    /\ (/\ bt_pc = "done"
        /\ \/ InsufficientData(ohlcv_df)
           \/ SelectModel(model_or_payload) = "None"
           \/ CreateFeaturesRows(ohlcv_df) < MIN_BARS
           \/ SelectModel(model_or_payload) = "raises")
       => /\ result.error # "None"
          /\ result.total_return = 0 /\ result.win_rate = 0
          /\ result.max_drawdown = 0 /\ result.num_trades = 0
    /\ (bt_pc = "done" /\ result.error = "None")
       => (prob_len >= MIN_BARS /\ i = prob_len - 1)

(***************************************************************************)
(* Claims about get_stock_recommendations (specification SpecScan)         *)
(***************************************************************************)
Tasks == 1..Len(target_list)

InList(ticker, lst) == \E j \in 1..Len(lst) : lst[j].ticker = ticker

Min(a, b) == IF a < b THEN a ELSE b

\* Task k's ticker was scored: its data were there and the SignalScorer ran.
Scored(k) ==
    outcome[k].kind = "ok" \/ (outcome[k].kind = "noinfo" /\ mode = "Short-term")

ScorerSignal(k) ==
    IF mode = "Short-term" THEN ShortTermSignal(outcome[k].score)
    ELSE LongTermSignal(outcome[k].score)

\* The score a ticker needs to be reported in the given mode.
InclusionScore == IF mode = "Short-term" THEN SHORT_TERM_MIN_SCORE ELSE LONG_TERM_MIN_SCORE

Qualifying == {k \in Tasks : Scored(k) /\ outcome[k].score >= InclusionScore}

SomeTickerRaises == \E k \in Tasks : outcome[k].kind = "raises"

\* C5: an exception while scoring one ticker stays inside its task: the scan
\* never raises, it returns its two lists, and a ticker whose task raised is
\* in neither of them.
C5_FailureContained ==
    /\ scan_pc # "raised"
    /\ \A k \in completed : outcome[k].kind = "raises" => scan_pc \in {"collect", "done"}
    /\ scan_pc = "done" =>
          \A k \in Tasks :
              outcome[k].kind = "raises" =>
                  (~InList(target_list[k], top_picks) /\ ~InList(target_list[k], warnings))

\* C5 witness: a finished scan in which a ticker raised and others were ranked.
C5_Witness ==
    scan_pc = "done" /\ SomeTickerRaises /\ Len(top_picks) >= 2 /\ mode = "Long-term"

\* The records of all tasks in submission order: what the scan collects when
\* the tasks complete in the order they were submitted.
RECURSIVE CollectInOrder(_)
CollectInOrder(n) ==
    IF n = 0 THEN <<>>
    ELSE LET r == ProcessTicker(target_list[n], mode, outcome[n]).value
         IN  IF r # NoneRec THEN Append(CollectInOrder(n - 1), r) ELSE CollectInOrder(n - 1)

\* C6: for a fixed universe and fixed scoring results the ranked output is the
\* same for every completion order; so it is the output of the run in which
\* the tasks complete in submission order.
C6_OrderIndependent ==
    scan_pc = "done" =>
        /\ top_picks = TopPicks(SortRecommendations(CollectInOrder(Len(target_list))))
        /\ warnings = Warnings(SortRecommendations(CollectInOrder(Len(target_list))))

\* C7: when one ticker's data source raises, the tickers that were scored and
\* meet the inclusion score are still ranked: all of them up to the cap, and
\* nothing else, so the result is non-empty when there is such a ticker.
C7_OthersStillRanked ==
    (scan_pc = "done" /\ SomeTickerRaises) =>
        /\ Len(top_picks) = Min(Cardinality(Qualifying), TOP_PICK_CAP)
        /\ \A j \in 1..Len(top_picks) :
              \E k \in Qualifying :
                  /\ top_picks[j].ticker = target_list[k]
                  /\ top_picks[j].score = outcome[k].score
        /\ Cardinality(Qualifying) <= TOP_PICK_CAP =>
              \A k \in Qualifying : InList(target_list[k], top_picks)
        /\ Qualifying # {} => top_picks # <<>>

\* C7 witness: one ticker raised, eleven others qualify, the cap cuts to ten.
C7_Witness ==
    /\ scan_pc = "done" /\ SomeTickerRaises
    /\ Cardinality(Qualifying) > TOP_PICK_CAP
    /\ Len(top_picks) = TOP_PICK_CAP

\* Tasks whose scored ticker is a candidate for warnings.
WarningCandidates ==
    {k \in Tasks : Scored(k) /\ (\/ outcome[k].score <= WARNING_MAX_SCORE
                                 \/ ScorerSignal(k) \in {"Sell", "Wait"})}

\* C8: warnings are the lowest-scoring (at most WARNING_CAP, ascending) of all
\* scored tickers with score <= 1 or label Sell / Wait.
C8_WarningsFromAllScored ==
    scan_pc = "done" =>
        /\ Len(warnings) = Min(Cardinality(WarningCandidates), WARNING_CAP)
        /\ \A j \in 1..Len(warnings) :
              \E k \in WarningCandidates : warnings[j].ticker = target_list[k]
        /\ \A j \in 1..(Len(warnings) - 1) : warnings[j].score <= warnings[j + 1].score

\* What the code does instead: no record ever qualifies as a warning.
WarningsAlwaysEmpty == warnings = <<>>

\* Records that met the top-pick score but are not in top_picks.
Dropped ==
    {recommendations[j] : j \in {m \in 1..Len(recommendations) :
        /\ recommendations[m].score >= TOP_PICK_MIN_SCORE
        /\ \A q \in 1..Len(top_picks) : top_picks[q] # recommendations[m]}}

\* C9: top_picks is in non-increasing score order, holds only collected
\* results with score >= 3, has at most 10 entries, and every kept result
\* scores at least as high as every dropped one.
C9_TopPicksRanked ==
    scan_pc = "done" =>
        /\ \A j \in 1..(Len(top_picks) - 1) : top_picks[j].score >= top_picks[j + 1].score
        /\ \A j \in 1..Len(top_picks) :
              /\ top_picks[j].score >= TOP_PICK_MIN_SCORE
              /\ \E m \in 1..Len(recommendations) : recommendations[m] = top_picks[j]
        /\ Len(top_picks) <= TOP_PICK_CAP
        /\ Cardinality({m \in 1..Len(recommendations) :
                          recommendations[m].score >= TOP_PICK_MIN_SCORE}) > TOP_PICK_CAP
              => Len(top_picks) = TOP_PICK_CAP
        /\ \A d \in Dropped : \A j \in 1..Len(top_picks) : top_picks[j].score >= d.score

\* C9 witness: more than ten results qualified, with different scores.
C9_Witness ==
    /\ scan_pc = "done"
    /\ Len(top_picks) = TOP_PICK_CAP
    /\ Dropped # {}
    /\ top_picks[1].score > top_picks[TOP_PICK_CAP].score

\* C10: an ETF is admitted to the ranked results at the lower ETF score, and
\* the score reported for it is the one the SignalScorer computed.
C10_EtfLowerThreshold ==
    scan_pc = "done" =>
        \A k \in Tasks :
            (IsEtf(target_list[k]) /\ Scored(k) /\ outcome[k].score >= ETF_MIN_SCORE) =>
                \E m \in 1..Len(recommendations) :
                    /\ recommendations[m].ticker = target_list[k]
                    /\ recommendations[m].score = outcome[k].score

\* What the code does instead: ETF or not, a ticker is reported only from the
\* mode's single-stock score upwards, with the scorer's score.
ReportedIffInclusionScore ==
    scan_pc = "done" =>
        \A k \in Tasks :
            InList(target_list[k], recommendations) <=> k \in Qualifying

(***************************************************************************)
(* Claims about the SignalScorer (specification SpecScore)                 *)
(***************************************************************************)
\* A factor of analyze_short_term has just been evaluated.
ShortFactorStep ==
    /\ sc_pc \in {"st_call", "st_rsi", "st_macd", "st_chips", "st_volume", "st_kd"}
    /\ reading' # reading

\* The last n rows of a frame in ascending date order: its latest n sessions.
Latest(rows, n) == SubSeq(rows, (IF Len(rows) < n THEN 0 ELSE Len(rows) - n) + 1, Len(rows))

\* The contribution the short-horizon rule assigns to the inputs r that a
\* factor has read.
ShortContribution(r) ==
    CASE r.factor = "ma" ->
            IF Gt(r.ma5, r.ma20) /\ Gt(r.ma20, r.ma60) THEN 2
            ELSE IF Gt(r.ma5, r.ma20) THEN 1
            ELSE IF Lt(r.ma5, r.ma20) THEN -1 ELSE 0
      [] r.factor = "rsi" ->
            IF Gt(r.rsi, Num(50)) /\ Lt(r.rsi, Num(70)) THEN 1
            ELSE IF Gt(r.rsi, Num(80)) THEN -1
            ELSE IF Lt(r.rsi, Num(30)) THEN 1 ELSE 0
      [] r.factor = "macd" -> IF Gt(r.macd, r.signal_line) THEN 1 ELSE 0
      [] r.factor = "chips" ->
            IF /\ InstGiven(r.inst_df)
               /\ NetBuy(Latest(r.inst_df.rows, INST_HEAD)) > 0
            THEN 1 ELSE 0
      [] r.factor = "volume" ->
            IF /\ Len(r.vols) >= VOL_WINDOW
               /\ VOL_WINDOW * r.vols[Len(r.vols)] > 2 * SumSeq(r.vols)
            THEN 1 ELSE 0
      [] r.factor = "kd" ->
            IF Lt(r.k, Num(20)) /\ Gt(r.k, r.d) /\ Lt(r.prev_k, r.prev_d) THEN 2
            ELSE IF Gt(r.k, Num(80)) /\ Lt(r.k, r.d) /\ Gt(r.prev_k, r.prev_d) THEN -1
            ELSE 0

\* C11: the score analyze_short_term returns is the sum of the six
\* contributions: each factor adds to the running score exactly what the rule
\* gives for its inputs (the institutional factor over the latest three rows
\* of the frame), and the score returned is the running score after the sixth.
C11_ScoreIsSumOfSix ==
    [][ShortFactorStep =>
            /\ sc_score' = sc_score + ShortContribution(reading')
            /\ sc_pc' = "done" => sc_ret'.score = sc_score']_vars

\* What the code does: the institutional factor sums inst_df.head(3), the
\* three oldest sessions of the frame the page builds.
InstFactorReadsOldest ==
    [][(ShortFactorStep /\ reading'.factor = "chips") =>
            sc_score' - sc_score = ShortChips(reading'.inst_df).delta]_vars

\* A factor of analyze_long_term has just been evaluated.
LongFactorStep ==
    /\ sc_pc \in {"lt_call", "lt_moat", "lt_beta", "lt_pe", "lt_yield",
                  "lt_cap", "lt_chips", "lt_fin"}
    /\ reading' # reading

\* The contribution the long-horizon rule assigns to the inputs r that a
\* factor has read; a missing input gives 0.
LongContribution(r) ==
    CASE r.factor = "trend" ->
            IF ~r.given THEN 0
            ELSE IF Lt(r.ma5, r.ma20) /\ Lt(r.ma20, r.ma60) THEN -2
            ELSE IF BelowMa60(r.current_price, r.ma60) THEN -1
            ELSE IF Gt(r.ma5, r.ma20) /\ Gt(r.ma20, r.ma60) THEN 1 ELSE 0
      [] r.factor = "moat" ->
            IF Gt(mkt_cap', Num(500)) /\ Gt(r.roe, Num(15)) THEN 2 ELSE 0
      [] r.factor = "beta" -> IF Lt(r.beta, Num(80)) THEN 1 ELSE 0
      [] r.factor = "pe" ->
            IF Lt(r.pe, Num(15)) THEN 2 ELSE IF Lt(r.pe, Num(25)) THEN 1 ELSE 0
      [] r.factor = "yield" ->
            IF Gt(r.yield_val, Num(4)) THEN 2
            ELSE IF Gt(r.yield_val, Num(2)) THEN 1 ELSE 0
      [] r.factor = "cap" -> IF Gt(r.cap, Num(100)) THEN 1 ELSE 0
      [] r.factor = "chips" ->
            IF /\ InstGiven(r.inst_df)
               /\ NetBuy(r.inst_df.rows) > 0
            THEN 1 ELSE 0
      [] r.factor = "fin" ->
            IF /\ r.stock_obj.kind = "rows"
               /\ Len(r.stock_obj.gp) >= 2
               /\ r.stock_obj.gp[1] * r.stock_obj.rev[2]
                    > r.stock_obj.gp[2] * r.stock_obj.rev[1]
            THEN 1 ELSE 0

\* C12: the score analyze_long_term returns is the sum of the eight
\* contributions: each factor adds to the running score exactly what the rule
\* gives for its inputs (a beta below 0.8 gives +1, a P/E below 15 gives +2,
\* a missing input gives 0), and the score returned is the running score
\* after the eighth.
C12_ScoreIsSumOfEight ==
    [][LongFactorStep =>
            /\ sc_score' = sc_score + LongContribution(reading')
            /\ sc_pc' = "done" => sc_ret'.score = sc_score']_vars

\* What the code does: a beta or a P/E of exactly 0 is taken for a missing
\* value (`if beta:`, `if pe:`) and contributes 0; every other input scores
\* as the rule says.
ZeroIsTakenForMissing ==
    [][LongFactorStep =>
            sc_score' = sc_score +
                (IF reading'.factor = "beta" /\ reading'.beta = Num(0) THEN 0
                 ELSE IF reading'.factor = "pe" /\ reading'.pe = Num(0) THEN 0
                 ELSE LongContribution(reading'))]_vars

\* The scorer has returned after evaluating its factors (its input was not
\* empty).
ShortScored == sc_pc = "done" /\ sc_mode = "short" /\ sc_ret.details # <<>>

LongScored == sc_pc = "done" /\ sc_mode = "long" /\ sc_ret.details # <<>>

ShortLabelRule(sc) ==
    IF sc >= 4 THEN "Strong Buy"
    ELSE IF sc \in 2..3 THEN "Buy"
    ELSE IF sc <= -1 THEN "Sell"
    ELSE "Wait"

LongLabelRule(sc) ==
    IF sc >= 5 THEN "Strong Buy"
    ELSE IF sc \in 3..4 THEN "Buy"
    ELSE "Wait"

\* C13 as stated: whatever the scorer returns, its label is the one the
\* thresholds give for the score it returns.
C13_LabelByScoreAlone ==
    sc_pc = "done" =>
        sc_ret.signal = IF sc_mode = "short" THEN ShortLabelRule(sc_ret.score)
                        ELSE LongLabelRule(sc_ret.score)

\* C13, amended: when the input is not empty the label is the one the
\* thresholds give for the total score, and the long-horizon label is never
\* Sell; an empty input is answered Neutral with score 0.
C13_LabelByScoreWhenScored ==
    /\ ShortScored => sc_ret.signal = ShortLabelRule(sc_ret.score)
    /\ LongScored => /\ sc_ret.signal = LongLabelRule(sc_ret.score)
                     /\ sc_ret.signal # "Sell"
    /\ (sc_pc = "done" /\ sc_ret.details = <<>>) =>
            sc_ret.signal = "Neutral" /\ sc_ret.score = 0

\* C13 witness: a short-horizon run whose total is exactly -1, labelled Sell.
C13_Witness == ShortScored /\ sc_ret.score = -1 /\ sc_ret.signal = "Sell"

RECURSIVE Metrics14(_)
Metrics14(dets) ==
    IF dets = <<>> THEN <<>> ELSE <<dets[1].metric>> \o Metrics14(Tail(dets))

ShortFactorOrder == <<"MA Trend", "RSI", "MACD", "Chips", "Volume", "KD">>

LongFactorOrder ==
    <<"Trend", "Moat", "Beta", "P/E", "Yield", "Market Cap", "Chips", "Financials">>

ScEnded == sc_pc \in {"done", "raised"}

DetailsFixedFromTwoRows ==
    /\ (ScEnded /\ sc_mode = "short" /\ df_len >= KD_ROWS) =>
            ~sc_ret.raised /\ Metrics14(sc_ret.details) = ShortFactorOrder
    /\ (ScEnded /\ sc_mode = "short" /\ df_len \in 1..(KD_ROWS - 1)) => sc_ret.raised
    /\ (ScEnded /\ sc_mode = "long" /\ ~info_empty) =>
            ~sc_ret.raised /\ Metrics14(sc_ret.details) = LongFactorOrder

(***************************************************************************)
(* Claims about the ModelTrainer (specification SpecTrain)                 *)
(***************************************************************************)
\* The usable rows of the input: <<frame, row>> pairs whose features and
\* target are all defined.
UsableRows ==
    {<<k, t>> \in (1..Len(data.frames)) \X (1..(MIN_TRAIN_ROWS + VOL_PERIOD + 1)) :
        t <= Len(data.frames[k]) /\ ~HasNaN(TrainRow(k, data.frames[k], t))}

\* The split has been made.
SplitMade == tr_pc = "fit" \/ (tr_pc = "done" /\ tr_ret.model # "None")

Placed(rows) == {<<rows[k].src, rows[k].t>> : k \in 1..Len(rows)}

\* C15: the split is chronological.  With n usable rows the training set is
\* the first floor(n * (1 - f)) of them in timestamp order and the test set
\* the rest (100 rows at f = 0.2 split at row 80), each usable row is placed
\* once, and no test row is dated before a training row, for one frame and
\* for a list of frames in any order.
C15_ChronologicalSplit ==
    SplitMade =>
        LET n == Cardinality(UsableRows)
            all == train_df \o test_df
        IN  /\ Len(train_df) = (n * (100 - test_size)) \div 100
            /\ Len(all) = n /\ Placed(all) = UsableRows
            /\ \A a, b \in 1..n : a < b => all[a].Date <= all[b].Date
            /\ \A a \in 1..Len(train_df), b \in 1..Len(test_df) :
                    test_df[b].Date >= train_df[a].Date
            /\ (n = 100 /\ test_size = 20) => Len(train_df) = 80

\* C15 witness: two frames of a list, the later-starting one first, give 100
\* usable rows that are split 80 / 20.
C15_Witness ==
    /\ tr_pc = "done" /\ tr_ret.model # "None"
    /\ data.isList /\ Len(data.frames) = 2
    /\ data.frames[1] # <<>> /\ data.frames[2] # <<>>
    /\ data.frames[1][1].Date > data.frames[2][1].Date
    /\ test_size = 20
    /\ Len(train_df) = 80 /\ Len(test_df) = 20

\* C16: no test-period information reaches training.  Every bar that a
\* training row is computed from, the bar after it that its label reads
\* included, is dated strictly before every test row.
C16_NoTestBarInTraining ==
    SplitMade =>
        \A a \in 1..Len(train_df), b \in 1..Len(test_df) :
            \A u \in 1..(train_df[a].t + 1) :
                data.frames[train_df[a].src][u].Date < test_df[b].Date

\* What the code does: the label of a training row reads the close of the
\* next session, and nothing later; with no gap between the two sets that
\* session belongs to the test period.
LabelReadsNextSession ==
    SplitMade =>
        \A a \in 1..Len(train_df) :
            \A u \in 1..(train_df[a].t + 1) :
                data.frames[train_df[a].src][u].Date <= train_df[a].Date + 1

\* C19: a row whose label is undefined, the final row of every series, is in
\* neither set, and the label a row carries is its own next-session label.
C19_UndefinedLabelExcluded ==
    \A rows \in {train_df, test_df} :
        \A k \in 1..Len(rows) :
            LET df == data.frames[rows[k].src]
            IN  /\ rows[k].t < Len(df)
                /\ rows[k].target # NaN
                /\ rows[k].target = Target(df, rows[k].t)

\* C19 witness: a list of two frames was trained on, rows of both in the sets.
C19_Witness ==
    /\ tr_pc = "done" /\ tr_ret.model # "None"
    /\ data.isList /\ Len(data.frames) = 2
    /\ \A s \in 1..2 : \E k \in 1..Len(train_df) : train_df[k].src = s

\* C20: the classifier is fitted only on 50 usable rows or more; with fewer
\* the result is a failure value with no model and an error text, and
\* nothing is split or fitted; exactly 50 rows train.
C20_MinimumRows ==
    LET n == Cardinality(UsableRows)
    IN  /\ (tr_pc \in {"split", "fit"} \/ (tr_pc = "done" /\ tr_ret.model # "None"))
                => n >= 50
        /\ (tr_pc = "done" /\ n < 50) =>
                /\ tr_ret.model = "None" /\ tr_ret.error # ""
                /\ train_df = <<>> /\ test_df = <<>>
        /\ (tr_pc = "done" /\ n = 50) => tr_ret.model # "None" /\ tr_ret.error = ""

\* C20 witness: exactly 50 usable rows, and a model was fitted.
C20_Witness ==
    /\ tr_pc = "done" /\ Cardinality(UsableRows) = 50
    /\ tr_ret.model # "None" /\ tr_ret.train_rows + tr_ret.test_rows = 50

(***************************************************************************)
(* Claims about the FeatureBuilder (specification SpecFeat)                *)
(***************************************************************************)
\* C17: features are causal.  The feature row of every session up to `cut`,
\* label aside, is the same for two series that agree up to `cut`, however
\* the later bars are altered, appended or removed.
C17_FeaturesCausal ==
    fe_pc = "done" =>
        \A t \in 1..cut : FeaturesOf(features[t]) = FeaturesOf(features_alt[t])

\* C17 witness: the bar after the first row that has every feature was
\* altered; that row's features are defined and the next row's changed.
C17_Witness ==
    /\ fe_pc = "done"
    /\ cut = VOL_PERIOD + 1 /\ Len(bars) > cut /\ Len(bars_alt) > cut
    /\ features[cut].rsi_14 # NaN /\ features[cut].volatility_20d # NaN
    /\ bars_alt[cut + 1] # bars[cut + 1]
    /\ FeaturesOf(features[cut + 1]) # FeaturesOf(features_alt[cut + 1])

\* C18: label[t] is 1 if close[t+1] > close[t] and 0 otherwise, equal closes
\* included, for every row but the last, whose label is undefined at any
\* length; closes 100, 102, 101, 105 give 1, 0, 1, undefined.
C18_Labels ==
    fe_pc \in {"again", "done"} =>
        /\ Len(features) = Len(bars)
        /\ \A t \in 1..Len(bars) :
            features[t].target =
                IF t = Len(bars) THEN {}
                ELSE IF bars[t + 1].Close > bars[t].Close THEN {1} ELSE {0}
        /\ [t \in 1..Len(bars) |-> bars[t].Close] = <<100, 102, 101, 105>> =>
                [t \in 1..Len(bars) |-> features[t].target] = <<{1}, {0}, {1}, {}>>

\* C18 witness: the example series has been labelled.
C18_Witness ==
    /\ fe_pc = "done"
    /\ [t \in 1..Len(bars) |-> bars[t].Close] = <<100, 102, 101, 105>>
    /\ Len(features) = 4 /\ features[4].target = {} /\ features[2].target = {0}

(***************************************************************************)
(* Claims about the equity curve and the metrics (specification Spec)      *)
(***************************************************************************)
\* exit / entry of every recorded trade, multiplied up.
RECURSIVE Compound(_)
Compound(tr) ==
    IF tr = <<>> THEN <<1, 1>>
    ELSE RatMul(Rat(tr[1].exit, tr[1].entry), Compound(Tail(tr)))

\* The simulation has run and the position is not open, or was closed at the
\* end of the series.
Settled ==
    \/ bt_pc = "sim" /\ ~holding
    \/ bt_pc = "done" /\ result.error = "None" /\ portfolio_values # <<>>

\* C24: the equity curve starts at 1.0, is multiplied by close[t+1]/close[t]
\* for every Long session from the entry session on, and so changes across
\* each trade by exit_price / entry_price: whenever no position is open the
\* last equity value is the product of the trades' exit / entry.
C24_EquityFollowsTrades ==
    /\ (bt_pc = "sim" \/ (bt_pc = "done" /\ portfolio_values # <<>>)) =>
            portfolio_values[1] = <<1, 1>>
    /\ Settled => portfolio_values[Len(portfolio_values)] = Compound(trades)

\* What the code does: the session that opens the position appends nothing to
\* the equity curve, every later Long session appends one value, and a Flat
\* session none.
EntrySessionNotAccrued ==
    [][LoopStep =>
          /\ ~holding => portfolio_values' = portfolio_values
          /\ holding => portfolio_values' = Accrue(portfolio_values, current_price', next_price')]_vars

\* C25 (as stated): total_return is 100 times the plain sum of the trades'
\* returns and win_rate 100 times the fraction of trades with a return above
\* 0, as exact numbers.  The reported values are in hundredths of a percent.
C25_ExactPercent ==
    (bt_pc = "done" /\ result.error = "None") =>
        /\ Rat(result.total_return, 100) = RatMul(<<100, 1>>, TotalReturn(trades))
        /\ Rat(result.win_rate, 100) = RatMul(<<100, 1>>, WinRate(trades))

\* C25 (amended): total_return is 100 times the plain sum of the recorded
\* trades' returns and win_rate 100 times the fraction of trades that exit
\* above their entry (a zero-return trade is no win), each rounded to two
\* decimals; num_trades counts the recorded trades, a forced close at the end
\* of the series included; all three are 0 without a trade.
C25_RoundedMetrics ==
    (bt_pc = "done" /\ result.error = "None") =>
        LET n == Len(trades)
            wins == Cardinality({k \in 1..n : trades[k].exit > trades[k].entry})
        IN  /\ result.num_trades = n /\ n = num_entries
            /\ n > 0 =>
                /\ result.total_return =
                      RoundPct(SeqSum([k \in 1..n |->
                          Rat(trades[k].exit - trades[k].entry, trades[k].entry)]))
                /\ result.win_rate = RoundPct(Rat(wins, n))
            /\ n = 0 => result.total_return = 0 /\ result.win_rate = 0

\* C25 witness: two trades, the first with a return of zero and the second a
\* forced close with a gain whose percentage is not a whole number of
\* hundredths; the sum differs from the compounded return.
C25_Witness ==
    /\ bt_pc = "done" /\ result.error = "None" /\ holding
    /\ Len(trades) = 2
    /\ trades[1].return = <<0, 1>>
    /\ trades[2].return = <<1, 11>>
    /\ result.win_rate = 5000 /\ result.total_return = 909

(***************************************************************************)
(* Claims about the scan result (specifications SpecScan, SpecScanLive)    *)
(***************************************************************************)
Tickers(recs) == [k \in 1..Len(recs) |-> recs[k].ticker]

Occurrences(x, list) == Cardinality({k \in 1..Len(list) : list[k] = x})

\* C28: in every sector no ticker appears more than once in top_picks and
\* none more than once in warnings.
C28_NoTickerTwice ==
    scan_pc = "done" =>
        /\ \A a, b \in 1..Len(top_picks) : top_picks[a].ticker = top_picks[b].ticker => a = b
        /\ \A a, b \in 1..Len(warnings) : warnings[a].ticker = warnings[b].ticker => a = b

\* What the code does: one task and at most one record per entry of the
\* sector's list, so a ticker is ranked as often as the list names it.
RankedAsOftenAsListed ==
    scan_pc = "done" =>
        /\ \A k \in 1..Len(top_picks) :
              Occurrences(top_picks[k].ticker, Tickers(top_picks))
                  <= Occurrences(top_picks[k].ticker, SECTOR_MAP[sector])
        /\ sector \in {"Memory", "ETF"} =>
              \A a, b \in 1..Len(top_picks) :
                  top_picks[a].ticker = top_picks[b].ticker => a = b

\* C29: in every scan result top_picks and warnings are disjoint: no record
\* is in both lists.
C29_PicksAndWarningsDisjoint ==
    scan_pc = "done" =>
        \A a \in 1..Len(top_picks), b \in 1..Len(warnings) : top_picks[a] # warnings[b]

\* C29 witness: a finished long-term scan of the ETF sector whose top picks
\* hold a record with the lowest score a top pick can have.
C29_Witness ==
    /\ scan_pc = "done" /\ mode = "Long-term" /\ sector = "ETF"
    /\ \E a \in 1..Len(top_picks) : top_picks[a].score = LONG_TERM_MIN_SCORE
    /\ \E a \in 1..Len(top_picks) : IsEtf(top_picks[a].ticker)

\* The records the submitted tasks return.
RecordOf(k) == ProcessTicker(target_list[k], mode, outcome[k]).value

\* C30: one task is submitted per entry of the selected universe; the result
\* is produced only after every task has completed, with every returned
\* record in the ranking; while a task is running the scan has not returned;
\* and, every task completing, the scan eventually returns.
C30_ReturnsAfterEveryTask ==
    /\ [](scan_pc \in {"collect", "done"} => target_list = SECTOR_MAP[sector])
    /\ [](scan_pc = "done" =>
            /\ completed = 1..Len(target_list)
            /\ Len(recommendations) =
                  Cardinality({k \in 1..Len(target_list) : RecordOf(k) # NoneRec})
            /\ \A k \in 1..Len(target_list) :
                  RecordOf(k) # NoneRec =>
                      \E j \in 1..Len(recommendations) : recommendations[j] = RecordOf(k))
    /\ [](completed # 1..Len(target_list) => scan_pc # "done")
    /\ <>(scan_pc = "done")

\* C30 witness: the scan of the six-ticker sector has returned, one of its
\* tasks having returned no record.
C30_Witness ==
    /\ scan_pc = "done" /\ sector = "Memory"
    /\ Cardinality(completed) = Len(SECTOR_MAP["Memory"])
    /\ Len(recommendations) = Len(target_list) - 1

(***************************************************************************)
(* C26                                                                     *)
(***************************************************************************)
\* C26: the hyperparameters follow the number of training rows left by the
\* split: under 1000 training rows the classifier is fitted with 50 trees,
\* depth 5 and a minimum leaf of 10, from 1000 on with 100 trees, no depth
\* limit and a minimum leaf of 2; the result records the parameters the
\* classifier was fitted with.
C26_ParamsByTrainingRows ==
    (ml_pc # "start" /\ ml_result.model # None) =>
        \A clf \in ml_result.model :
            /\ ml_result.train_rows < 1000 =>
                    clf.params = [n_estimators |-> 50, max_depth |-> {5},
                                  min_samples_leaf |-> 10]
            /\ ml_result.train_rows >= 1000 =>
                    clf.params = [n_estimators |-> 100, max_depth |-> {},
                                  min_samples_leaf |-> 2]
            /\ ml_result.rf_params = {clf.params}

\* A pooled frame of 1000 rows or more whose training part has fewer than
\* 1000 rows, fitted with the regularized parameters.
C26_Witness ==
    /\ ml_pc = "saved"
    /\ ml_result.model # None
    /\ ml_result.train_rows + ml_result.test_rows >= 1000
    /\ ml_result.train_rows < 1000
    /\ \A clf \in ml_result.model : clf.params.n_estimators = 50

(***************************************************************************)
(* C21                                                                     *)
(***************************************************************************)
\* C21: when run_backtest or predict_proba_latest hands a matrix to the
\* classifier of a payload, its columns are the payload's feature_cols in
\* the payload's order, a column holds the supplied 0 exactly when
\* create_features did not compute it, and the feature_cols that
\* fit_from_pooled stores are the columns its classifier was fitted on, in
\* the same order.
C21_PayloadColumnsReplayed ==
    /\ (ml_pc = "done" /\ ml_call.mp.isDict /\ ml_matrix.given) =>
          \A pl \in ml_call.mp.value :
              "feature_cols" \in DOMAIN pl =>
                  \A cols \in pl.feature_cols :
                      /\ ml_matrix.cols = cols
                      /\ \A j \in 1..Len(cols) :
                            (j \in ml_matrix.zero) <=>
                                (\A m \in 1..Len(FeatureColumns(ml_call.add_kd)) :
                                    FeatureColumns(ml_call.add_kd)[m] # cols[j])
    /\ (ml_pc # "start" /\ ml_saved.by = "fit_from_pooled") =>
          \A clf \in ml_result.model :
              /\ Load(ml_file).feature_cols = {clf.fit_cols}
              /\ ml_result.feature_cols = clf.fit_cols

\* A payload fitted with the KD columns, used by run_backtest without them:
\* stoch_k and stoch_d are supplied as 0.
C21_Witness ==
    /\ ml_pc = "done"
    /\ ml_call.fn = "run_backtest"
    /\ ml_call.mp.isDict
    /\ ml_saved.by = "fit_from_pooled"
    /\ ml_matrix.given
    /\ Cardinality(ml_matrix.zero) = 2
    /\ ~ml_call.add_kd

(***************************************************************************)
(* C27                                                                     *)
(***************************************************************************)
\* C27: when run_backtest is given a bare classifier, the matrix it hands to
\* the classifier has the columns the classifier was fitted on, the same
\* names in the same order (for a classifier fitted with the same add_kd).
C27_BareClassifierColumns ==
    (ml_pc = "done" /\ ml_call.fn = "run_backtest" /\ ~ml_call.mp.isDict
        /\ ml_matrix.given) =>
        \A clf \in ml_call.mp.value :
            Len(clf.fit_cols) = Len(ml_matrix.cols) => ml_matrix.cols = clf.fit_cols

\* On the bare-classifier path the matrix has the fitted names, each once,
\* and none is zero-filled when add_kd is the one used in training.
BareClassifierSameNames ==
    (ml_pc = "done" /\ ml_call.fn = "run_backtest" /\ ~ml_call.mp.isDict
        /\ ml_matrix.given) =>
        \A clf \in ml_call.mp.value :
            Len(clf.fit_cols) = Len(ml_matrix.cols) =>
                /\ {ml_matrix.cols[j] : j \in 1..Len(ml_matrix.cols)}
                       = {clf.fit_cols[j] : j \in 1..Len(clf.fit_cols)}
                /\ ml_matrix.zero = {}
                /\ \A j \in 1..9 : ml_matrix.cols[j] = clf.fit_cols[j]
                /\ ml_matrix.cols[10] = <<"close_lag", 1>>
                /\ ml_matrix.cols[11] = <<"close_lag", 2>>
                /\ clf.fit_cols[11] = <<"volume_lag", 1>>

(***************************************************************************)
(* C22                                                                     *)
(***************************************************************************)
\* C22: after save_model, load_model_payload on the same (intact) path
\* returns a payload whose classifier, feature_cols and metadata are the
\* ones that were passed to save_model.
C22_SaveLoadRoundTrip ==
    (ml_pc \in {"loaded", "done"} /\ ml_saved.by # "none" /\ ml_disk = "intact") =>
        /\ ml_loaded # None
        /\ \A pl \in ml_loaded :
              /\ pl.model = ml_saved.model
              /\ pl.feature_cols = ml_saved.feature_cols
              /\ ml_saved.metadata # None => pl.metadata = ml_saved.metadata

\* What is loaded is what was written: classifier and feature_cols are the
\* arguments, metadata is the argument unless that was None or empty.
LoadedIsWhatWasWritten ==
    (ml_pc \in {"loaded", "done"} /\ ml_saved.by # "none" /\ ml_disk = "intact") =>
        /\ ml_loaded # None
        /\ \A pl \in ml_loaded :
              /\ pl.model = ml_saved.model
              /\ pl.feature_cols = ml_saved.feature_cols
              /\ (ml_saved.metadata # None /\ ml_saved.metadata # {{}}) =>
                    pl.metadata = ml_saved.metadata
              /\ ml_saved.metadata = {{}} =>
                    pl.metadata = {{<<"feature_set_version", "v1">>, <<"trained_at", "now">>}}

(***************************************************************************)
(* C23                                                                     *)
(***************************************************************************)
\* C23: predict_proba_latest never raises and returns a probability in
\* [0, 1]; it returns exactly 0.5 when the payload lacks its classifier or
\* its feature-column list, when no feature row is built, and when the
\* classifier raises; load_model_payload returns None when the file is
\* absent or unreadable.
C23_NeutralOnFailure ==
    /\ (ml_pc = "done" /\ ml_call.fn = "predict_proba_latest") =>
          /\ ~ml_out.raised
          /\ ml_out.value \in 0..100
          /\ (ml_call.mp.isDict /\
                \E pl \in ml_call.mp.value :
                    \/ GetDefault(pl, "model", None) = None
                    \/ GetDefault(pl, "feature_cols", None) = None)
                => ml_out.value = 50
          /\ ml_call.bars_kind = "empty" => ml_out.value = 50
          /\ ml_call.behaviour = "raises" => ml_out.value = 50
    /\ (ml_pc \in {"loaded", "done"} /\ ml_disk \in {"absent", "unreadable"}) =>
          ml_loaded = None

\* The same, for a payload that lacks its feature-column list only when no
\* feature_cols argument supplies one.
NeutralWithoutColumnsFromEitherSource ==
    /\ (ml_pc = "done" /\ ml_call.fn = "predict_proba_latest") =>
          /\ ~ml_out.raised
          /\ ml_out.value \in 0..100
          /\ (ml_call.mp.isDict /\
                \E pl \in ml_call.mp.value :
                    \/ GetDefault(pl, "model", None) = None
                    \/ GetDefault(pl, "feature_cols", ml_call.feature_cols) = None)
                => ml_out.value = 50
          /\ ml_call.bars_kind = "empty" => ml_out.value = 50
          /\ ml_call.behaviour = "raises" => ml_out.value = 50
    /\ (ml_pc \in {"loaded", "done"} /\ ml_disk \in {"absent", "unreadable"}) =>
          ml_loaded = None

====
